---- MODULE Spec2Model ----
(***************************************************************************)
(* Model of the simulation core of rust-citysim.                           *)
(* game/src/game/building/storage.rs: StorageSlot, StorageSlots and        *)
(* StorageBuilding, with the operations receive_resources,                 *)
(* decrement_slot_resource_count, how_many_can_fit and shop.               *)
(* game/src/game/sim/world.rs: UnitSpawnPool, BuildingList and World.      *)
(***************************************************************************)
EXTENDS Integers, Sequences, FiniteSets, TLC

VARIABLES
    slots,            \* StorageSlots::slots: slot index (from 0) -> StorageSlot
    slot_capacity,    \* StorageSlots::slot_capacity
    debug_build,      \* TRUE: debug_assert! and overflow checks are compiled in
    before,           \* the callee's state (the slots, the pool, the world) as it
                      \* was when the call in progress was made
    call,             \* the call in progress and its arguments (NoCall between calls)
    ret,              \* what the call returned, with the basket as shop left it
    panicked,         \* the call panicked: the program is gone
    hist,             \* the calls made so far (recorded by SpecYard and SpecSim)
    config,           \* StorageBuilding::config: what StorageSlots::new is given
    unit_spawn_pool,  \* World::unit_spawn_pool
    building_lists,   \* World::building_lists: archetype -> slab of buildings
    tile_map,         \* the Objects layer of the tile map: cell -> tile
    update_timer,     \* Simulation::update_timer
    visitor           \* the unit visiting the storage building: its cargo, and
                      \* whether the building asked for its despawn

world_vars == <<unit_spawn_pool, building_lists, tile_map>>

sim_vars == <<update_timer, visitor>>

vars == <<slots, slot_capacity, debug_build, before, call, ret, panicked, hist,
          config, world_vars, sim_vars>>

----------------------------------------------------------------------------
(* Bounds of the model. *)

NumSlots == 2         \* StorageConfig::num_slots of the storage explored by Spec
SlotCapacity == 2     \* StorageConfig::slot_capacity of the storage explored by Spec
MaxCalls == 3         \* calls made by SpecYard

(* The storage yard / granary configuration. *)
YardNumSlots == 8
YardSlotCapacity == 4

----------------------------------------------------------------------------
(* u32 arithmetic.  A u32 that may be large (an amount passed in, a sum, a  *)
(* difference) is held as its two 16-bit halves; counts held in a slot are  *)
(* plain naturals.                                                          *)

Half == 2^16

U32(n) == [hi |-> n \div Half, lo |-> n % Half]

U32Max == [hi |-> Half - 1, lo |-> Half - 1]

U32Less(a, b) == a.hi < b.hi \/ (a.hi = b.hi /\ a.lo < b.lo)

U32Min(a, b) == IF U32Less(b, a) THEN b ELSE a

add_overflows(a, b) == a.hi + b.hi + ((a.lo + b.lo) \div Half) >= Half

wrapping_add(a, b) ==
    LET lo == a.lo + b.lo
        hi == a.hi + b.hi + (lo \div Half)
    IN  [hi |-> hi % Half, lo |-> lo % Half]

wrapping_sub(a, b) ==
    LET lo == a.lo - b.lo
        borrow == IF lo < 0 THEN 1 ELSE 0
        hi == a.hi - b.hi - borrow
    IN  [hi |-> (hi + Half) % Half, lo |-> (lo + Half) % Half]

saturating_sub(count, sub_amount) ==
    IF U32Less(U32(count), sub_amount) THEN 0 ELSE wrapping_sub(U32(count), sub_amount).lo

----------------------------------------------------------------------------
(* Resource kinds and ResourceStock. *)

None == "None"

AllKinds == <<"Rice", "Meat", "Fish">>

ResourcesAccepted == <<"Rice", "Meat">>

Kinds == {AllKinds[i] : i \in 1..Len(AllKinds)}

with_accepted_list(accepted) == [i \in 1..Len(accepted) |-> [kind |-> accepted[i], count |-> 0]]

\* Option<(index, item)>: index 0 stands for None.
stock_find(stock, kind) ==
    IF \E i \in 1..Len(stock) : stock[i].kind = kind
    THEN CHOOSE i \in 1..Len(stock) : stock[i].kind = kind
    ELSE 0

stock_count(stock, kind) ==
    IF stock_find(stock, kind) = 0 THEN 0 ELSE stock[stock_find(stock, kind)].count

stock_set(stock, index, item) == [stock EXCEPT ![index] = item]

stock_add(stock, kind) ==
    IF stock_find(stock, kind) = 0 THEN stock
    ELSE [stock EXCEPT ![stock_find(stock, kind)].count = @ + 1]

----------------------------------------------------------------------------
(* StorageSlot.  An operation that can panic yields a record whose panic    *)
(* field tells whether it did.                                              *)

is_free(slot) == slot.allocated_resource_kind = None

\* Mutant: a slot is taken as full only beyond its capacity.
is_full_beyond(slot, capacity) ==
    /\ slot.allocated_resource_kind # None
    /\ stock_count(slot.stock, slot.allocated_resource_kind) > capacity

is_full(slot, capacity) ==
    /\ slot.allocated_resource_kind # None
    /\ stock_count(slot.stock, slot.allocated_resource_kind) >= capacity

\* The debug assertion count <= slot_capacity cannot fail: see C1_CountWithinCapacity.
remaining_capacity(slot, capacity) ==
    IF slot.allocated_resource_kind # None
    THEN capacity - stock_count(slot.stock, slot.allocated_resource_kind)
    ELSE capacity

resource_index_and_count(slot, kind) ==
    LET index == stock_find(slot.stock, kind)
    IN  [panic |-> index = 0,
         index |-> index,
         count |-> IF index = 0 THEN 0 ELSE slot.stock[index].count]

\* The kind written is the slot's allocation: every caller has checked that it is
\* allocated (unwrap() panics otherwise).
set_resource_count(slot, index, count) ==
    [slot EXCEPT !.stock = stock_set(@, index,
        [kind |-> slot.allocated_resource_kind, count |-> count])]

\* Mutant: the sum is stored without the clamp to the capacity.
clamped_count_unclamped(prev_count, add_amount, capacity) ==
    wrapping_add(U32(prev_count), add_amount).lo

clamped_count(prev_count, add_amount, capacity) ==
    U32Min(wrapping_add(U32(prev_count), add_amount), U32(capacity)).lo

allocate_kind(slot, kind) == [slot EXCEPT !.allocated_resource_kind = kind]

increment_resource_count(slot, kind, add_amount, capacity, dbg) ==
    LET found == resource_index_and_count(slot, kind)
        prev_count == found.count
        count == clamped_count(prev_count, add_amount, capacity)
        conflict == ~is_free(slot) /\ slot.allocated_resource_kind # kind
        failed == \/ found.panic
                  \/ dbg /\ add_overflows(U32(prev_count), add_amount)
                  \/ conflict
                  \/ dbg /\ is_free(slot) /\ prev_count # 0
        allocated == IF is_free(slot) THEN allocate_kind(slot, kind) ELSE slot
    IN  IF failed THEN [panic |-> TRUE, slot |-> slot, count |-> 0]
        ELSE [panic |-> FALSE,
              slot  |-> IF count # prev_count
                        THEN set_resource_count(allocated, found.index, count)
                        ELSE allocated,
              count |-> count]

\* Mutant: the slot is released whatever count is left in it.
release_always(slot, count) == [slot EXCEPT !.allocated_resource_kind = None]

release_if_empty(slot, count) ==
    IF count = 0 THEN [slot EXCEPT !.allocated_resource_kind = None] ELSE slot

decrement_resource_count(slot, kind, sub_amount) ==
    LET found == resource_index_and_count(slot, kind)
        count == saturating_sub(found.count, sub_amount)
        failed == \/ found.panic
                  \/ found.count # 0 /\ slot.allocated_resource_kind # kind
    IN  IF failed THEN [panic |-> TRUE, slot |-> slot, count |-> 0]
        ELSE IF found.count = 0 THEN [panic |-> FALSE, slot |-> slot, count |-> 0]
        ELSE [panic |-> FALSE,
              slot  |-> release_if_empty(set_resource_count(slot, found.index, count), count),
              count |-> count]

----------------------------------------------------------------------------
(* StorageSlots. *)

NoSlot == -1

SlotIndices(ss) == DOMAIN ss

new_slots(resources_accepted, num_slots) ==
    [i \in 0..(num_slots - 1) |->
        [stock |-> with_accepted_list(resources_accepted), allocated_resource_kind |-> None]]

MAX_STORAGE_SLOTS == 8

\* Mutant: a zero slot capacity is let through.
invalid_config_any_capacity(resources_accepted, num_slots, capacity) ==
    Len(resources_accepted) = 0 \/ num_slots = 0

invalid_config(resources_accepted, num_slots, capacity) ==
    Len(resources_accepted) = 0 \/ num_slots = 0 \/ capacity = 0

\* StorageSlots::new.  The slots are pushed into an ArrayVec of
\* MAX_STORAGE_SLOTS elements, whose push panics when it is full.
storage_slots_new(resources_accepted, num_slots, capacity) ==
    IF invalid_config(resources_accepted, num_slots, capacity) \/ num_slots > MAX_STORAGE_SLOTS
    THEN [panic |-> TRUE, slots |-> <<>>, slot_capacity |-> 0]
    ELSE [panic |-> FALSE, slots |-> new_slots(resources_accepted, num_slots),
          slot_capacity |-> capacity]

slot_resource_count(ss, slot_index, kind) == resource_index_and_count(ss[slot_index], kind)

increment_slot_resource_count(ss, capacity, slot_index, kind, add_amount, dbg) ==
    LET r == increment_resource_count(ss[slot_index], kind, add_amount, capacity, dbg)
    IN  [panic |-> r.panic, slots |-> [ss EXCEPT ![slot_index] = r.slot], count |-> r.count]

decrement_slot_resource_count(ss, slot_index, kind, sub_amount) ==
    LET r == decrement_resource_count(ss[slot_index], kind, sub_amount)
    IN  [panic |-> r.panic, slots |-> [ss EXCEPT ![slot_index] = r.slot], count |-> r.count]

\* Mutant: one full slot is enough.
are_some_slots_full(ss, capacity) == \E i \in SlotIndices(ss) : is_full(ss[i], capacity)

are_all_slots_full(ss, capacity) == \A i \in SlotIndices(ss) : is_full(ss[i], capacity)

\* The first index of S in ascending order, as a loop over the slots that returns
\* at the first hit finds it; NoSlot when S is empty.
FirstSlot(S) ==
    IF S = {} THEN NoSlot ELSE CHOOSE i \in S : \A j \in S : i <= j

find_free_slot(ss) == FirstSlot({i \in SlotIndices(ss) : is_free(ss[i])})

find_resource_slot(ss, kind) ==
    FirstSlot({i \in SlotIndices(ss) : ss[i].allocated_resource_kind = kind})

\* The slots already holding kind that are not full.
UsableSlots(ss, capacity, kind) ==
    {i \in SlotIndices(ss) : ss[i].allocated_resource_kind = kind /\ ~is_full(ss[i], capacity)}

\* Mutant: a free slot is preferred to a slot already holding the kind.
alloc_resource_slot_free_first(ss, capacity, kind) ==
    IF find_free_slot(ss) # NoSlot THEN find_free_slot(ss)
    ELSE FirstSlot(UsableSlots(ss, capacity, kind))

alloc_resource_slot(ss, capacity, kind) ==
    IF FirstSlot(UsableSlots(ss, capacity, kind)) # NoSlot
    THEN FirstSlot(UsableSlots(ss, capacity, kind))
    ELSE find_free_slot(ss)

\* Mutant: only free slots are counted.
fit_in_slot_free_only(slot, capacity, kind) == IF is_free(slot) THEN capacity ELSE 0

fit_in_slot(slot, capacity, kind) ==
    IF is_free(slot) THEN capacity
    ELSE IF slot.allocated_resource_kind = kind THEN remaining_capacity(slot, capacity)
    ELSE 0

RECURSIVE fit_from(_, _, _, _)
fit_from(ss, capacity, kind, i) ==
    IF i \notin SlotIndices(ss) THEN 0
    ELSE fit_in_slot(ss[i], capacity, kind) + fit_from(ss, capacity, kind, i + 1)

how_many_can_fit(ss, capacity, kind) == fit_from(ss, capacity, kind, 0)

received_delta(new_count, prev_count) == wrapping_sub(U32(new_count), U32(prev_count))

receive_resources(ss, capacity, kind, count, dbg) ==
    LET slot_index == alloc_resource_slot(ss, capacity, kind)
    IN  IF slot_index = NoSlot
        THEN [panic |-> FALSE, slots |-> ss, count |-> U32(0), slot |-> NoSlot]
        ELSE LET prev == slot_resource_count(ss, slot_index, kind)
                 inc  == increment_slot_resource_count(ss, capacity, slot_index, kind, count, dbg)
             IN  IF prev.panic \/ inc.panic \/ (dbg /\ inc.count < prev.count)
                 THEN [panic |-> TRUE, slots |-> ss, count |-> U32(0), slot |-> slot_index]
                 ELSE [panic |-> FALSE, slots |-> inc.slots,
                       count |-> received_delta(inc.count, prev.count), slot |-> slot_index]

----------------------------------------------------------------------------
(* StorageBuilding::shop. *)

\* The all_or_nothing loop: "abort" when a wanted kind has no slot, "panic"
\* when the debug assertion on its count fails, "go" otherwise.
RECURSIVE shop_verify(_, _, _, _)
shop_verify(ss, shopping_list, i, dbg) ==
    IF i > Len(shopping_list) THEN "go"
    ELSE LET slot_index == find_resource_slot(ss, shopping_list[i])
         IN  IF slot_index = NoSlot THEN "abort"
             ELSE IF dbg /\ ( \/ slot_resource_count(ss, slot_index, shopping_list[i]).panic
                             \/ slot_resource_count(ss, slot_index, shopping_list[i]).count = 0 )
                  THEN "panic"
             ELSE shop_verify(ss, shopping_list, i + 1, dbg)

\* One pass of the second loop for the wanted resource.
shop_one(st, wanted_resource) ==
    LET slot_index == find_resource_slot(st.slots, wanted_resource)
    IN  IF slot_index = NoSlot \/ st.panic THEN st
        ELSE LET prev == slot_resource_count(st.slots, slot_index, wanted_resource)
                 dec  == decrement_slot_resource_count(st.slots, slot_index, wanted_resource, U32(1))
             IN  IF prev.panic \/ dec.panic THEN [st EXCEPT !.panic = TRUE]
                 ELSE IF dec.count < prev.count
                      THEN [panic  |-> FALSE,
                            slots  |-> dec.slots,
                            basket |-> stock_add(st.basket, wanted_resource),
                            kinds  |-> st.kinds \cup {wanted_resource}]
                      ELSE [st EXCEPT !.slots = dec.slots]

RECURSIVE shop_take(_, _, _)
shop_take(st, shopping_list, i) ==
    IF i > Len(shopping_list) THEN st
    ELSE shop_take(shop_one(st, shopping_list[i]), shopping_list, i + 1)

shop(ss, basket, shopping_list, all_or_nothing, dbg) ==
    LET start    == [panic |-> FALSE, slots |-> ss, basket |-> basket, kinds |-> {}]
        verdict  == IF all_or_nothing THEN shop_verify(ss, shopping_list, 1, dbg) ELSE "go"
        taken    == shop_take(start, shopping_list, 1)
    IN  IF verdict = "abort" THEN start
        ELSE IF verdict = "panic" \/ taken.panic THEN [start EXCEPT !.panic = TRUE]
        ELSE taken

----------------------------------------------------------------------------
(* The state machine: one StorageBuilding and a caller.  The caller makes a *)
(* call (the whole call is one step), then takes the result (Return) and is *)
(* free to make the next call.                                              *)

EmptyBasket == with_accepted_list(AllKinds)

\* A basket already holding n units of every kind.
BasketOf(n) == [i \in 1..Len(AllKinds) |-> [kind |-> AllKinds[i], count |-> n]]

Baskets == {EmptyBasket, BasketOf(1)}

\* Amounts passed in: below, at and beyond the capacity, and the largest u32.
Amounts(capacity) == {U32(n) : n \in 0..(capacity + 1)} \cup {U32Max}

\* Shopping lists: sequences of distinct kinds.
ShoppingLists ==
    {l \in UNION {[1..n -> Kinds] : n \in 0..Len(AllKinds)} :
        \A i, j \in DOMAIN l : i # j => l[i] # l[j]}

NoCall ==
    [op |-> "none", kind |-> None, amount |-> U32(0), slot_index |-> NoSlot,
     shopping_list |-> <<>>, all_or_nothing |-> FALSE, basket |-> EmptyBasket]

NoRet == [count |-> U32(0), kinds |-> {}, slot |-> NoSlot, basket |-> EmptyBasket]

\* A storage building on its own: there is no world around it.
NoPool == [pool |-> <<>>, is_spawned_flags |-> <<>>]

NoBuildings == <<>>

NoTiles == <<>>

NoWorld ==
    /\ unit_spawn_pool = NoPool
    /\ building_lists = NoBuildings
    /\ tile_map = NoTiles

\* No simulation is running and no unit is visiting.
NoTimer == [update_frequency_secs |-> 0, time_since_last_update_secs |-> 0]

NoVisitor == [kind |-> None, count |-> U32(0), despawn_requested |-> FALSE]

NoSim ==
    /\ update_timer = NoTimer
    /\ visitor = NoVisitor

StorageConfig(resources_accepted, num_slots, capacity) ==
    [resources_accepted |-> resources_accepted, num_slots |-> num_slots,
     slot_capacity |-> capacity]

InitStorage(num_slots, capacity) ==
    /\ config = StorageConfig(ResourcesAccepted, num_slots, capacity)
    /\ NoWorld
    /\ slots = new_slots(ResourcesAccepted, num_slots)
    /\ slot_capacity = capacity
    /\ debug_build \in BOOLEAN
    /\ before = slots
    /\ call = NoCall
    /\ ret = NoRet
    /\ panicked = FALSE
    /\ hist = <<>>
    /\ NoSim

Init == InitStorage(NumSlots, SlotCapacity)

Idle == call = NoCall /\ ~panicked

ReceiveResources(kind, count) ==
    LET r == receive_resources(slots, slot_capacity, kind, count, debug_build)
    IN  /\ Idle
        /\ call' = [NoCall EXCEPT !.op = "receive_resources", !.kind = kind, !.amount = count]
        /\ slots' = r.slots
        /\ ret' = [NoRet EXCEPT !.count = r.count, !.slot = r.slot]
        /\ panicked' = r.panic
        /\ before' = slots
        /\ UNCHANGED <<slot_capacity, debug_build, config, sim_vars, world_vars>>

DecrementSlotResourceCount(slot_index, kind, sub_amount) ==
    LET r == decrement_slot_resource_count(slots, slot_index, kind, sub_amount)
    IN  /\ Idle
        /\ call' = [NoCall EXCEPT !.op = "decrement_slot_resource_count", !.kind = kind,
                                  !.amount = sub_amount, !.slot_index = slot_index]
        /\ slots' = r.slots
        /\ ret' = [NoRet EXCEPT !.count = U32(r.count)]
        /\ panicked' = r.panic
        /\ before' = slots
        /\ UNCHANGED <<slot_capacity, debug_build, config, sim_vars, world_vars>>

HowManyCanFit(kind) ==
    /\ Idle
    /\ call' = [NoCall EXCEPT !.op = "how_many_can_fit", !.kind = kind]
    /\ ret' = [NoRet EXCEPT !.count = U32(how_many_can_fit(slots, slot_capacity, kind))]
    /\ before' = slots
    /\ UNCHANGED <<slots, slot_capacity, debug_build, panicked, config, sim_vars, world_vars>>

Shop(basket, shopping_list, all_or_nothing) ==
    LET r == shop(slots, basket, shopping_list, all_or_nothing, debug_build)
    IN  /\ Idle
        /\ call' = [NoCall EXCEPT !.op = "shop", !.shopping_list = shopping_list,
                                  !.all_or_nothing = all_or_nothing, !.basket = basket]
        /\ slots' = r.slots
        /\ ret' = [NoRet EXCEPT !.kinds = r.kinds, !.basket = r.basket]
        /\ panicked' = r.panic
        /\ before' = slots
        /\ UNCHANGED <<slot_capacity, debug_build, config, sim_vars, world_vars>>

\* The caller has the result of a call that returned.
Return ==
    /\ call # NoCall
    /\ ~panicked
    /\ call' = NoCall
    /\ ret' = NoRet
    /\ before' = slots
    /\ UNCHANGED <<slots, slot_capacity, debug_build, panicked, config, sim_vars, world_vars>>

Next ==
    \/ \E kind \in Kinds, count \in Amounts(slot_capacity) :
          ReceiveResources(kind, count) /\ UNCHANGED hist
    \/ \E slot_index \in SlotIndices(slots), kind \in Kinds, sub_amount \in Amounts(slot_capacity) :
          DecrementSlotResourceCount(slot_index, kind, sub_amount) /\ UNCHANGED hist
    \/ \E kind \in Kinds :
          HowManyCanFit(kind) /\ UNCHANGED hist
    \/ \E basket \in Baskets, shopping_list \in ShoppingLists, all_or_nothing \in BOOLEAN :
          Shop(basket, shopping_list, all_or_nothing) /\ UNCHANGED hist
    \/ Return /\ UNCHANGED hist

Spec == Init /\ [][Next]_vars

(* The storage yard: a fresh storage of 8 slots of capacity 4 and the first *)
(* MaxCalls receive_resources calls made on it, recorded in hist.           *)

InitYard == InitStorage(YardNumSlots, YardSlotCapacity)

NextYard ==
    \/ \E kind \in Kinds, count \in Amounts(slot_capacity) :
          /\ Len(hist) < MaxCalls
          /\ ReceiveResources(kind, count)
          /\ hist' = Append(hist, [kind |-> kind, count |-> count])
    \/ Return /\ UNCHANGED hist

SpecYard == InitYard /\ [][NextYard]_vars

----------------------------------------------------------------------------
(* Properties. *)

\* The count of kind held by slot i of ss (0 when the stock has no such entry).
CountIn(ss, i, kind) == stock_count(ss[i].stock, kind)

\* The count of kind held by the slots S of ss together.
RECURSIVE TotalOver(_, _, _)
TotalOver(ss, S, kind) ==
    IF S = {} THEN 0
    ELSE LET i == CHOOSE j \in S : TRUE
         IN  CountIn(ss, i, kind) + TotalOver(ss, S \ {i}, kind)

\* The storage's total stock of kind.
Total(ss, kind) == TotalOver(ss, SlotIndices(ss), kind)

Called(op) == call.op = op

Accepted == {ResourcesAccepted[i] : i \in 1..Len(ResourcesAccepted)}

\* C1: in every reachable state every slot's count of every kind is at most
\* slot_capacity.
C1_CountWithinCapacity ==
    \A i \in SlotIndices(slots) : \A kind \in Kinds : CountIn(slots, i, kind) <= slot_capacity

\* A receive_resources of more than the capacity has filled a slot to the brim.
C1_Witness ==
    /\ Called("receive_resources") /\ ~panicked
    /\ U32Less(U32(slot_capacity), call.amount)
    /\ ret.slot # NoSlot
    /\ CountIn(slots, ret.slot, call.kind) = slot_capacity
    /\ CountIn(before, ret.slot, call.kind) > 0

\* C2: in every reachable state a slot's allocated_resource_kind is None if and
\* only if the slot's count is 0; so the slot find_resource_slot finds for a kind
\* holds a nonzero count of it.
C2_FreeIffEmpty ==
    /\ \A i \in SlotIndices(slots) :
          is_free(slots[i]) <=> (\A kind \in Kinds : CountIn(slots, i, kind) = 0)
    /\ \A kind \in Kinds :
          find_resource_slot(slots, kind) # NoSlot
              => CountIn(slots, find_resource_slot(slots, kind), kind) # 0

\* C3: in every reachable state a slot with a nonzero count of a kind is
\* allocated to that kind, so it holds a nonzero count of at most one kind and a
\* free slot holds none.
C3_OneKindPerSlot ==
    \A i \in SlotIndices(slots) :
        /\ \A kind \in Kinds :
              CountIn(slots, i, kind) # 0 => slots[i].allocated_resource_kind = kind
        /\ Cardinality({kind \in Kinds : CountIn(slots, i, kind) # 0}) <= 1

\* Two slots hold two different kinds after a slot was allocated by a call.
C3_Witness ==
    /\ Called("receive_resources") /\ ~panicked
    /\ ret.slot # NoSlot
    /\ is_free(before[ret.slot])
    /\ CountIn(slots, ret.slot, call.kind) # 0
    /\ \E j \in SlotIndices(slots) : \E other \in Kinds \ {call.kind} :
          CountIn(slots, j, other) # 0

\* The room left in slot i of ss for one more receive.
RoomIn(ss, i) == slot_capacity - TotalOver(ss, {i}, ss[i].allocated_resource_kind)

\* Slot i of ss holds kind and is not full.
OpenFor(ss, i, kind) ==
    ss[i].allocated_resource_kind = kind /\ CountIn(ss, i, kind) < slot_capacity

\* C4: receive_resources(kind, count) returns r = min(count, remaining capacity
\* of the slot it selected), or 0 when no slot is available; the total stock of
\* kind grows by exactly r and every other slot and every other kind's count is
\* unchanged.
C4_ReceiveReturnsAbsorbed ==
    (Called("receive_resources") /\ ~panicked) =>
        /\ ret.count = IF ret.slot = NoSlot THEN U32(0)
                       ELSE U32Min(call.amount, U32(RoomIn(before, ret.slot)))
        /\ ret.count.hi = 0
        /\ Total(slots, call.kind) = Total(before, call.kind) + ret.count.lo
        /\ \A i \in SlotIndices(slots) : i # ret.slot => slots[i] = before[i]
        /\ \A i \in SlotIndices(slots) : \A other \in Kinds \ {call.kind} :
              CountIn(slots, i, other) = CountIn(before, i, other)

\* The slot receive_resources is to select in ss for kind: the lowest-index slot
\* holding kind that is not full, else the lowest-index free slot, else none.
Selected(ss, kind) ==
    LET open == {i \in SlotIndices(ss) : OpenFor(ss, i, kind)}
        free == {i \in SlotIndices(ss) : ss[i].allocated_resource_kind = None}
        Lowest(S) == CHOOSE i \in S : \A j \in S : i <= j
    IN  IF open # {} THEN Lowest(open) ELSE IF free # {} THEN Lowest(free) ELSE NoSlot

\* C5: receive_resources(kind, n) writes to the lowest-index slot already
\* allocated to kind that is not full if there is one, otherwise to the
\* lowest-index free slot; otherwise it selects no slot, returns 0 and leaves the
\* storage unchanged.  It never newly allocates a free slot to kind while a
\* non-full slot of kind exists.
C5_SlotSelection ==
    Called("receive_resources") =>
        /\ ret.slot = Selected(before, call.kind)
        /\ \A i \in SlotIndices(slots) : i # ret.slot => slots[i] = before[i]
        /\ ret.slot = NoSlot => (ret.count = U32(0) /\ slots = before /\ ~panicked)
        /\ \A i \in SlotIndices(slots) :
              (before[i].allocated_resource_kind = None
                  /\ slots[i].allocated_resource_kind = call.kind)
              => ~ \E j \in SlotIndices(before) : OpenFor(before, j, call.kind)

\* A call has filled up a non-full slot of its kind that lies above a free slot.
C5_Witness ==
    /\ Called("receive_resources") /\ ~panicked
    /\ ret.slot # NoSlot
    /\ \E i \in SlotIndices(before) : i < ret.slot /\ before[i].allocated_resource_kind = None
    /\ OpenFor(before, ret.slot, call.kind)
    /\ CountIn(slots, ret.slot, call.kind) > CountIn(before, ret.slot, call.kind)

\* The sum, over the slots of ss, of: the capacity if the slot is free, the
\* capacity less the count if it is allocated to kind, 0 otherwise.
Room(ss, kind) ==
    LET free == {i \in SlotIndices(ss) : ss[i].allocated_resource_kind = None}
        held == {i \in SlotIndices(ss) : ss[i].allocated_resource_kind = kind}
    IN  slot_capacity * Cardinality(free)
            + (slot_capacity * Cardinality(held) - TotalOver(ss, held, kind))

\* C6: how_many_can_fit(K) equals the sum over all slots of slot_capacity for a
\* free slot, slot_capacity - count for a slot allocated to K and 0 for a slot
\* allocated to another kind; the call changes no slot.
C6_HowManyCanFitIsRoom ==
    Called("how_many_can_fit") =>
        /\ ret.count = U32(Room(before, call.kind))
        /\ slots = before
        /\ ~panicked

\* The query was answered for a storage with a partly filled slot of the kind
\* next to a slot of another kind.
C6_Witness ==
    /\ Called("how_many_can_fit")
    /\ \E i, j \in SlotIndices(slots) :
          /\ slots[i].allocated_resource_kind = call.kind
          /\ CountIn(slots, i, call.kind) \in 1..(slot_capacity - 1)
          /\ slots[j].allocated_resource_kind \notin {None, call.kind}
    /\ ret.count = U32(1)

RiceTwice == <<[kind |-> "Rice", count |-> U32(4)], [kind |-> "Rice", count |-> U32(4)]>>

\* C7: an empty storage of 8 slots of capacity 4 accepting Rice and Meat fits 32
\* Rice; after receive_resources(Rice, 4) twice exactly two slots are allocated
\* to Rice and the storage fits 24 Rice and 24 Meat.
C7_YardScenario ==
    /\ (hist = <<>>) =>
          how_many_can_fit(slots, slot_capacity, "Rice") = 32
    /\ (hist = RiceTwice) =>
          /\ ~panicked
          /\ Cardinality({i \in SlotIndices(slots) :
                            slots[i].allocated_resource_kind = "Rice"}) = 2
          /\ how_many_can_fit(slots, slot_capacity, "Rice") = 24
          /\ how_many_can_fit(slots, slot_capacity, "Meat") = 24

\* The second receive_resources(Rice, 4) has returned.
C7_Witness ==
    /\ hist = RiceTwice
    /\ Called("receive_resources")
    /\ ret.count = U32(4)
    /\ Total(slots, "Rice") = 8

\* C8: how_many_can_fit(kind) is the number of resources of an accepted kind the
\* storage can receive: receive_resources(kind, n) with
\* 1 <= n <= how_many_can_fit(kind) returns n.
C8_ReceivesWhatFits ==
    ( /\ Called("receive_resources")
      /\ call.kind \in Accepted
      /\ U32Less(U32(0), call.amount)
      /\ ~U32Less(U32(how_many_can_fit(before, slot_capacity, call.kind)), call.amount) )
    => (~panicked /\ ret.count = call.amount)

\* The kinds of a shopping list.
Wanted(shopping_list) == {shopping_list[i] : i \in DOMAIN shopping_list}

\* The call changed neither the storage nor the basket.
NothingTaken == slots = before /\ ret.basket = call.basket

\* C9: given a storage holding exactly 1 Rice and 0 Meat,
\* shop(basket, [Rice, Meat], all_or_nothing = true) returns the empty kind-set
\* and leaves storage and basket unchanged, and
\* shop(basket, [Rice], all_or_nothing = true) removes exactly 1 Rice from the
\* storage, adds 1 Rice to the basket and returns a kind-set containing Rice.
C9_ShopOneRice ==
    ( /\ Called("shop") /\ call.all_or_nothing /\ ~panicked
      /\ Total(before, "Rice") = 1
      /\ Total(before, "Meat") = 0 )
    => /\ call.shopping_list = <<"Rice", "Meat">> => (ret.kinds = {} /\ NothingTaken)
       /\ call.shopping_list = <<"Rice">> =>
             /\ Total(slots, "Rice") = 0
             /\ Total(slots, "Meat") = 0
             /\ stock_count(ret.basket, "Rice") = stock_count(call.basket, "Rice") + 1
             /\ "Rice" \in ret.kinds

\* C10: shop with all_or_nothing = true is atomic: either it returns the empty
\* kind-set and changes neither the storage nor the basket, or it removes exactly
\* one unit of every kind in shopping_list and the returned kind-set contains
\* every kind in shopping_list.
C10_ShopAllOrNothing ==
    (Called("shop") /\ call.all_or_nothing /\ ~panicked)
    => \/ ret.kinds = {} /\ NothingTaken
       \/ /\ Wanted(call.shopping_list) \subseteq ret.kinds
          /\ \A kind \in Wanted(call.shopping_list) :
                Total(slots, kind) = Total(before, kind) - 1

\* C11: shop with all_or_nothing = false, for each kind of shopping_list: if the
\* storage holds at least one unit of the kind, its total of the kind drops by
\* exactly 1, the basket gains exactly 1 and the kind is in the returned
\* kind-set; otherwise nothing changes for the kind and it is not returned.
\* Counts of kinds not in shopping_list are unchanged.
C11_ShopTakesAvailable ==
    (Called("shop") /\ ~call.all_or_nothing /\ ~panicked)
    => \A kind \in Kinds :
          IF kind \in Wanted(call.shopping_list) /\ Total(before, kind) >= 1
          THEN /\ Total(slots, kind) = Total(before, kind) - 1
               /\ stock_count(ret.basket, kind) = stock_count(call.basket, kind) + 1
               /\ kind \in ret.kinds
          ELSE /\ Total(slots, kind) = Total(before, kind)
               /\ stock_count(ret.basket, kind) = stock_count(call.basket, kind)
               /\ kind \notin ret.kinds

\* max(c - sub_amount, 0) for a count c and a u32 sub_amount.
MonusOf(c, sub_amount) == IF U32Less(sub_amount, U32(c)) THEN c - sub_amount.lo ELSE 0

\* C12: decrement_slot_resource_count(slot, K, amount) on a slot allocated to K
\* with count c returns max(c - amount, 0); when the result is 0 the slot has
\* become free, so a following receive_resources of a different accepted kind
\* that selects this slot allocates it.
C12_DecrementSaturatesAndFrees ==
    ( /\ Called("decrement_slot_resource_count") /\ ~panicked
      /\ before[call.slot_index].allocated_resource_kind = call.kind )
    => /\ ret.count = U32(MonusOf(CountIn(before, call.slot_index, call.kind), call.amount))
       /\ CountIn(slots, call.slot_index, call.kind) = ret.count.lo
       /\ ret.count = U32(0) =>
             /\ is_free(slots[call.slot_index])
             /\ \A other \in Accepted \ {call.kind} :
                   alloc_resource_slot(slots, slot_capacity, other) = call.slot_index
                   => LET r == receive_resources(slots, slot_capacity, other, U32(1), debug_build)
                      IN  /\ ~r.panic
                          /\ r.count = U32(1)
                          /\ r.slots[call.slot_index].allocated_resource_kind = other

----------------------------------------------------------------------------
(* StorageBuilding::new: the construction of the slots from a StorageConfig. *)

\* The lists of accepted kinds a config may hold, the empty one included.
AcceptedLists == ShoppingLists

StorageConfigs ==
    {StorageConfig(resources_accepted, num_slots, capacity) :
        resources_accepted \in AcceptedLists,
        num_slots \in 0..(MAX_STORAGE_SLOTS + 1),
        capacity \in 0..SlotCapacity}

InitNew ==
    /\ config \in StorageConfigs
    /\ NoWorld
    /\ slots = <<>>
    /\ slot_capacity = 0
    /\ debug_build \in BOOLEAN
    /\ before = slots
    /\ call = NoCall
    /\ ret = NoRet
    /\ panicked = FALSE
    /\ hist = <<>>
    /\ NoSim

New ==
    LET r == storage_slots_new(config.resources_accepted, config.num_slots, config.slot_capacity)
    IN  /\ Idle
        /\ call' = [NoCall EXCEPT !.op = "new"]
        /\ slots' = r.slots
        /\ slot_capacity' = r.slot_capacity
        /\ ret' = NoRet
        /\ panicked' = r.panic
        /\ before' = slots
        /\ UNCHANGED <<debug_build, config, sim_vars, world_vars>>

NextNew ==
    \/ New /\ UNCHANGED hist
    \/ Return /\ UNCHANGED hist

SpecNew == InitNew /\ [][NextNew]_vars

\* C13: StorageSlots::new panics when num_slots is 0, slot_capacity is 0 or the
\* accepted-kind set is empty; for 1 <= num_slots <= 8, a nonzero capacity and a
\* non-empty accepted set it yields exactly num_slots slots, all free with
\* count 0.
C13_NewPanicsOrYieldsFreeSlots ==
    Called("new") =>
        /\ ( \/ config.num_slots = 0
             \/ config.slot_capacity = 0
             \/ Len(config.resources_accepted) = 0 ) => panicked
        /\ ( /\ config.num_slots \in 1..8
             /\ config.slot_capacity # 0
             /\ Len(config.resources_accepted) # 0 )
           => /\ ~panicked
              /\ Cardinality(SlotIndices(slots)) = config.num_slots
              /\ slot_capacity = config.slot_capacity
              /\ \A i \in SlotIndices(slots) :
                    /\ is_free(slots[i])
                    /\ \A kind \in Kinds : CountIn(slots, i, kind) = 0

\* The largest storage has been constructed.
C13_Witness ==
    /\ Called("new") /\ ~panicked
    /\ config.num_slots = 8
    /\ Cardinality(SlotIndices(slots)) = 8
    /\ \A i \in SlotIndices(slots) : is_free(slots[i])

----------------------------------------------------------------------------
(* The slot-level interface of StorageSlots: slot_resource_count and        *)
(* increment_slot_resource_count called on a slot of the caller's choice,   *)
(* next to the operations of Spec.                                          *)

SlotResourceCount(slot_index, kind) ==
    LET r == slot_resource_count(slots, slot_index, kind)
    IN  /\ Idle
        /\ call' = [NoCall EXCEPT !.op = "slot_resource_count", !.kind = kind,
                                  !.slot_index = slot_index]
        /\ ret' = [NoRet EXCEPT !.count = U32(r.count)]
        /\ panicked' = r.panic
        /\ before' = slots
        /\ UNCHANGED <<slots, slot_capacity, debug_build, config, sim_vars, world_vars>>

IncrementSlotResourceCount(slot_index, kind, add_amount) ==
    LET r == increment_slot_resource_count(slots, slot_capacity, slot_index, kind,
                                           add_amount, debug_build)
    IN  /\ Idle
        /\ call' = [NoCall EXCEPT !.op = "increment_slot_resource_count", !.kind = kind,
                                  !.amount = add_amount, !.slot_index = slot_index]
        /\ slots' = r.slots
        /\ ret' = [NoRet EXCEPT !.count = U32(r.count)]
        /\ panicked' = r.panic
        /\ before' = slots
        /\ UNCHANGED <<slot_capacity, debug_build, config, sim_vars, world_vars>>

NextSlots ==
    \/ Next
    \/ \E slot_index \in SlotIndices(slots), kind \in Kinds :
          SlotResourceCount(slot_index, kind) /\ UNCHANGED hist
    \/ \E slot_index \in SlotIndices(slots), kind \in Kinds, add_amount \in Amounts(slot_capacity) :
          IncrementSlotResourceCount(slot_index, kind, add_amount) /\ UNCHANGED hist

SpecSlots == Init /\ [][NextSlots]_vars

\* C14: increment_slot_resource_count(slot, K, n) or
\* decrement_slot_resource_count(slot, K, n) on a slot allocated to a different
\* kind panics: it returns no count and modifies neither the slot's allocation
\* nor its counts.
C14_ConflictingKindPanics ==
    ( /\ Called("increment_slot_resource_count") \/ Called("decrement_slot_resource_count")
      /\ before[call.slot_index].allocated_resource_kind \notin {None, call.kind} )
    => (panicked /\ slots = before)

\* C15: receive_resources, slot_resource_count, increment_slot_resource_count
\* and decrement_slot_resource_count called with a kind that is not in the
\* accepted set panic in every storage state, a completely full storage
\* included, and leave all slots unchanged.
C15_KindNotAcceptedPanics ==
    ( /\ \/ Called("receive_resources")
         \/ Called("slot_resource_count")
         \/ Called("increment_slot_resource_count")
         \/ Called("decrement_slot_resource_count")
      /\ call.kind \notin Accepted )
    => (panicked /\ slots = before)

----------------------------------------------------------------------------
(* UnitSpawnPool (game/src/game/sim/world.rs).  A Vec or BitVec is a        *)
(* function on 0..len-1.  A unit is known by the tile it was spawned on;    *)
(* the unit config given to spawn is carried with the tile and left out.    *)

PoolCapacity == 2     \* largest capacity given to UnitSpawnPool::new
MaxPoolLen == 3       \* the pool is not grown beyond this length
NumTiles == 2         \* tiles a unit can be spawned on

Tiles == 1..NumTiles

NoTile == 0

VecLen(v) == Cardinality(DOMAIN v)

VecRepeat(x, n) == [i \in 0..(n - 1) |-> x]

VecPush(v, x) == [i \in 0..VecLen(v) |-> IF i < VecLen(v) THEN v[i] ELSE x]

\* Unit: the record of a despawned unit, and the unit's own operations.
unit_default == [tile |-> NoTile, spawn_pool_index |-> NoSlot]

\* Option<&Unit>::None, what try_get returns for a slot that is not live.
NoUnit == [tile |-> NoTile - 1, spawn_pool_index |-> NoSlot]

unit_new(tile, index) == [tile |-> tile, spawn_pool_index |-> index]

unit_spawned(unit, tile, index) == [unit EXCEPT !.tile = tile, !.spawn_pool_index = index]

unit_despawned(unit) == unit_default

unit_is_spawned(unit) == unit.tile # NoTile

\* BitVec::first_zero: the lowest index holding a zero bit, NoSlot standing
\* for None.
\* Mutant: the highest index holding a zero bit.
last_zero(flags) ==
    IF \A i \in DOMAIN flags : flags[i] THEN NoSlot
    ELSE CHOOSE i \in DOMAIN flags : ~flags[i] /\ \A j \in DOMAIN flags : ~flags[j] => j <= i

first_zero(flags) ==
    IF \A i \in DOMAIN flags : flags[i] THEN NoSlot
    ELSE CHOOSE i \in DOMAIN flags : ~flags[i] /\ \A j \in DOMAIN flags : ~flags[j] => i <= j

pool_new(capacity) ==
    [pool |-> VecRepeat(unit_default, capacity), is_spawned_flags |-> VecRepeat(FALSE, capacity)]

pool_is_valid(p) == VecLen(p.pool) = VecLen(p.is_spawned_flags)

\* An index into a Vec or BitVec beyond its end panics.
InBounds(p, index) == index \in DOMAIN p.pool /\ index \in DOMAIN p.is_spawned_flags

\* The next entry from position pos on whose flag is set: what next() yields
\* when the enumeration stands at pos (NoSlot: the iterator is exhausted).
\* Mutant: every entry is yielded.
iter_next_unfiltered(p, pos) ==
    IF pos \in DOMAIN p.pool THEN pos ELSE NoSlot

iter_next(p, pos) ==
    LET hits == {i \in DOMAIN p.pool : i >= pos /\ p.is_spawned_flags[i]}
    IN  IF hits = {} THEN NoSlot ELSE CHOOSE i \in hits : \A j \in hits : i <= j

RECURSIVE iter_from(_, _)
iter_from(p, pos) ==
    LET index == iter_next(p, pos)
    IN  IF index = NoSlot THEN <<>>
        ELSE <<[index |-> index, unit |-> p.pool[index]]>> \o iter_from(p, index + 1)

\* The entries a loop over iter() / iter_mut() visits, in the order visited.
pool_iter(p) == iter_from(p, 0)

pool_iter_mut(p) == iter_from(p, 0)

\* Mutant: clear() empties the vectors.
pool_clear_truncating(p, dbg) ==
    IF dbg /\ ~pool_is_valid(p) THEN [panic |-> TRUE, pool |-> p]
    ELSE [panic |-> FALSE, pool |-> pool_new(0)]

pool_clear(p, dbg) ==
    IF dbg /\ ~pool_is_valid(p) THEN [panic |-> TRUE, pool |-> p]
    ELSE [panic |-> FALSE,
          pool  |-> [pool |-> [i \in DOMAIN p.pool |-> unit_default],
                     is_spawned_flags |-> [i \in DOMAIN p.is_spawned_flags |-> FALSE]]]

pool_try_get(p, index, dbg) ==
    IF (dbg /\ ~pool_is_valid(p)) \/ index \notin DOMAIN p.is_spawned_flags
    THEN [panic |-> TRUE, unit |-> NoUnit]
    ELSE IF ~p.is_spawned_flags[index] THEN [panic |-> FALSE, unit |-> NoUnit]
    ELSE IF index \notin DOMAIN p.pool \/ (dbg /\ ~unit_is_spawned(p.pool[index]))
         THEN [panic |-> TRUE, unit |-> NoUnit]
    ELSE [panic |-> FALSE, unit |-> p.pool[index]]

\* Mutant: the flag is set and the record of the recycled slot is left as it was.
recycle_keeps_unit(p, index, tile) ==
    [p EXCEPT !.is_spawned_flags[index] = TRUE]

\* spawn, a free slot found: the record is reinitialized in place, its flag set.
recycle(p, index, tile) ==
    [p EXCEPT !.pool[index] = unit_spawned(@, tile, index),
              !.is_spawned_flags[index] = TRUE]

\* Mutant: the new record is pushed without its flag.
append_unit_no_flag(p, unit) == [p EXCEPT !.pool = VecPush(@, unit)]

\* spawn, no free slot: a new record and a new set flag are pushed.
append_unit(p, unit) ==
    [pool |-> VecPush(p.pool, unit), is_spawned_flags |-> VecPush(p.is_spawned_flags, TRUE)]

pool_spawn(p, tile, dbg) ==
    LET recycled_pool_index == first_zero(p.is_spawned_flags)
        new_pool_index == VecLen(p.pool)
        failed == [panic |-> TRUE, pool |-> p, index |-> NoSlot, unit |-> NoUnit]
    IN  IF dbg /\ ~pool_is_valid(p) THEN failed
        ELSE IF recycled_pool_index # NoSlot
        THEN IF \/ recycled_pool_index \notin DOMAIN p.pool
                \/ dbg /\ unit_is_spawned(p.pool[recycled_pool_index])
             THEN failed
             ELSE LET q == recycle(p, recycled_pool_index, tile)
                  IN  [panic |-> FALSE, pool |-> q, index |-> recycled_pool_index,
                       unit |-> q.pool[recycled_pool_index]]
        ELSE LET q == append_unit(p, unit_new(tile, new_pool_index))
             IN  [panic |-> FALSE, pool |-> q, index |-> new_pool_index,
                  unit |-> q.pool[new_pool_index]]

\* despawn(unit): unit is a reference to the record at unit_ref of this pool,
\* as every reference the pool hands out is.
pool_despawn(p, unit_ref, dbg) ==
    LET unit == p.pool[unit_ref]
        pool_index == unit.spawn_pool_index
    IN  IF \/ dbg /\ ~pool_is_valid(p)
           \/ dbg /\ ~unit_is_spawned(unit)
           \/ pool_index \notin DOMAIN p.is_spawned_flags
           \/ dbg /\ ~p.is_spawned_flags[pool_index]
           \/ dbg /\ pool_index # unit_ref
        THEN [panic |-> TRUE, pool |-> p]
        ELSE [panic |-> FALSE,
              pool  |-> [p EXCEPT !.pool[unit_ref] = unit_despawned(@),
                                  !.is_spawned_flags[pool_index] = FALSE]]

\* Mutant: despawn_index resets the entry and leaves its bit set.
pool_despawn_index_keeps_flag(p, pool_index, dbg) ==
    IF ~InBounds(p, pool_index) THEN [panic |-> TRUE, pool |-> p]
    ELSE [panic |-> FALSE, pool |-> [p EXCEPT !.pool[pool_index] = unit_despawned(@)]]

pool_despawn_index(p, pool_index, dbg) ==
    IF \/ dbg /\ ~pool_is_valid(p)
       \/ ~InBounds(p, pool_index)
       \/ dbg /\ ~p.is_spawned_flags[pool_index]
       \/ dbg /\ ~unit_is_spawned(p.pool[pool_index])
       \/ dbg /\ p.pool[pool_index].spawn_pool_index # pool_index
    THEN [panic |-> TRUE, pool |-> p]
    ELSE [panic |-> FALSE,
          pool  |-> [p EXCEPT !.pool[pool_index] = unit_despawned(@),
                              !.is_spawned_flags[pool_index] = FALSE]]

(* The pool and a caller: calls and returns as for the storage. *)

PoolCall(op, tile, index) == [op |-> op, tile |-> tile, index |-> index]

PoolRet(index, unit, items) == [index |-> index, unit |-> unit, items |-> items]

PoolStep(c, r, p, panic) ==
    /\ Idle
    /\ call' = c
    /\ ret' = r
    /\ unit_spawn_pool' = p
    /\ panicked' = panic
    /\ before' = unit_spawn_pool
    /\ UNCHANGED <<slots, slot_capacity, debug_build, hist, config, sim_vars, building_lists, tile_map>>

PoolSpawn(tile) ==
    LET r == pool_spawn(unit_spawn_pool, tile, debug_build)
    IN  /\ first_zero(unit_spawn_pool.is_spawned_flags) # NoSlot
           \/ VecLen(unit_spawn_pool.pool) < MaxPoolLen
        /\ PoolStep(PoolCall("spawn", tile, NoSlot), PoolRet(r.index, r.unit, <<>>),
                    r.pool, r.panic)

\* The caller despawns a unit it holds a reference to (from try_get_mut, a
\* loop over iter_mut or spawn): a live one.
PoolDespawn(unit_ref) ==
    LET r == pool_despawn(unit_spawn_pool, unit_ref, debug_build)
    IN  /\ unit_spawn_pool.is_spawned_flags[unit_ref]
        /\ PoolStep(PoolCall("despawn", NoTile, unit_ref), PoolRet(NoSlot, NoUnit, <<>>),
                    r.pool, r.panic)

PoolDespawnIndex(pool_index) ==
    LET r == pool_despawn_index(unit_spawn_pool, pool_index, debug_build)
    IN  PoolStep(PoolCall("despawn_index", NoTile, pool_index), PoolRet(NoSlot, NoUnit, <<>>),
                 r.pool, r.panic)

PoolClear ==
    LET r == pool_clear(unit_spawn_pool, debug_build)
    IN  PoolStep(PoolCall("clear", NoTile, NoSlot), PoolRet(NoSlot, NoUnit, <<>>),
                 r.pool, r.panic)

PoolTryGet(index) ==
    LET r == pool_try_get(unit_spawn_pool, index, debug_build)
    IN  PoolStep(PoolCall("try_get", NoTile, index), PoolRet(index, r.unit, <<>>),
                 unit_spawn_pool, r.panic)

PoolIter ==
    PoolStep(PoolCall("iter", NoTile, NoSlot),
             PoolRet(NoSlot, NoUnit, pool_iter(unit_spawn_pool)), unit_spawn_pool, FALSE)

PoolIterMut ==
    PoolStep(PoolCall("iter_mut", NoTile, NoSlot),
             PoolRet(NoSlot, NoUnit, pool_iter_mut(unit_spawn_pool)), unit_spawn_pool, FALSE)

PoolReturn ==
    /\ call # NoCall
    /\ ~panicked
    /\ call' = NoCall
    /\ ret' = NoRet
    /\ before' = unit_spawn_pool
    /\ UNCHANGED <<slots, slot_capacity, debug_build, panicked, hist, config, sim_vars, world_vars>>

InitPool ==
    /\ \E capacity \in 0..PoolCapacity : unit_spawn_pool = pool_new(capacity)
    /\ building_lists = NoBuildings
    /\ tile_map = NoTiles
    /\ config = StorageConfig(ResourcesAccepted, NumSlots, SlotCapacity)
    /\ slots = new_slots(ResourcesAccepted, NumSlots)
    /\ slot_capacity = SlotCapacity
    /\ debug_build \in BOOLEAN
    /\ before = unit_spawn_pool
    /\ call = NoCall
    /\ ret = NoRet
    /\ panicked = FALSE
    /\ hist = <<>>
    /\ NoSim

\* Indices a caller may pass: those of the pool and the first one beyond it.
PoolIndices == 0..VecLen(unit_spawn_pool.pool)

NextPool ==
    \/ \E tile \in Tiles : PoolSpawn(tile)
    \/ \E unit_ref \in DOMAIN unit_spawn_pool.pool : PoolDespawn(unit_ref)
    \/ \E pool_index \in PoolIndices : PoolDespawnIndex(pool_index)
    \/ PoolClear
    \/ \E index \in PoolIndices : PoolTryGet(index)
    \/ PoolIter
    \/ PoolIterMut
    \/ PoolReturn

SpecPool == InitPool /\ [][NextPool]_vars

\* What try_get(index) returns from pool p: a unit, or NoUnit.
Got(p, index) == pool_try_get(p, index, debug_build).unit

\* The indices of p whose live bit is set / clear.
LiveIn(p) == {i \in DOMAIN p.is_spawned_flags : p.is_spawned_flags[i]}

ClearIn(p) == DOMAIN p.is_spawned_flags \ LiveIn(p)

\* C16: under any sequence of spawn, despawn and despawn_index: after spawn has
\* returned index i, try_get(i) returns that same unit until despawn or
\* despawn_index of i, whatever is spawned and despawned at other indices; after
\* that despawn try_get(i) returns None; when a later spawn returns i again,
\* try_get(i) returns the newly spawned unit.
C16_IndexStability ==
    [][ \A i \in DOMAIN unit_spawn_pool'.pool :
          /\ ~pool_try_get(unit_spawn_pool', i, debug_build).panic
          /\ \/ panicked'
             \/ call'.op = "clear"
             \/ /\ call'.op = "spawn" /\ ret'.index = i
                /\ Got(unit_spawn_pool', i) = unit_new(call'.tile, i)
                /\ Got(unit_spawn_pool', i) = ret'.unit
                /\ i \in DOMAIN unit_spawn_pool.pool => Got(unit_spawn_pool, i) = NoUnit
             \/ /\ call'.op \in {"despawn", "despawn_index"} /\ call'.index = i
                /\ Got(unit_spawn_pool', i) = NoUnit
             \/ /\ ~(call'.op = "spawn" /\ ret'.index = i)
                /\ ~(call'.op \in {"despawn", "despawn_index"} /\ call'.index = i)
                /\ i \in DOMAIN unit_spawn_pool.pool
                /\ Got(unit_spawn_pool', i) = Got(unit_spawn_pool, i)
      ]_vars

\* A spawn has reused an index below a unit that stayed alive through it.
C16_Witness ==
    /\ Called("spawn") /\ ~panicked
    /\ ret.index \in DOMAIN before.pool
    /\ Got(unit_spawn_pool, ret.index) = unit_new(call.tile, ret.index)
    /\ \E j \in LiveIn(before) :
          /\ j > ret.index
          /\ Got(unit_spawn_pool, j) = before.pool[j]
          /\ before.pool[j].tile # call.tile

\* C17: spawn returns the lowest index whose live bit is clear and sets that
\* bit; only when every bit is set does it append, returning the previous
\* length as the new index with a set bit.  The returned index is a function
\* of the set of live indices alone.
C17_SpawnLowestClear ==
    (Called("spawn") /\ ~panicked) =>
        /\ IF ClearIn(before) # {}
           THEN /\ ret.index \in ClearIn(before)
                /\ \A j \in ClearIn(before) : ret.index <= j
                /\ VecLen(unit_spawn_pool.pool) = VecLen(before.pool)
           ELSE /\ ret.index = VecLen(before.pool)
                /\ VecLen(unit_spawn_pool.pool) = VecLen(before.pool) + 1
        /\ LiveIn(unit_spawn_pool) = LiveIn(before) \cup {ret.index}
        /\ ret.index \notin LiveIn(before)

\* A spawn has taken the lower of two clear indices lying above a live one.
C17_Witness ==
    /\ Called("spawn") /\ ~panicked
    /\ \E i \in LiveIn(before) : i < ret.index
    /\ \E j \in ClearIn(before) : j > ret.index
    /\ ret.index \in LiveIn(unit_spawn_pool)

\* C18: after any sequence of new, spawn, despawn, despawn_index and clear the
\* unit array and the live-bit vector have the same length: is_valid() holds in
\* every reachable state.
C18_PoolIsValid ==
    /\ pool_is_valid(unit_spawn_pool)
    /\ DOMAIN unit_spawn_pool.pool = DOMAIN unit_spawn_pool.is_spawned_flags

\* A spawn has grown the pool and its flags.
C18_Witness ==
    /\ Called("spawn") /\ ~panicked
    /\ VecLen(unit_spawn_pool.pool) = VecLen(before.pool) + 1
    /\ VecLen(unit_spawn_pool.is_spawned_flags) = VecLen(before.is_spawned_flags) + 1
    /\ VecLen(before.pool) > 0

\* The loop over items visits exactly the live entries of p, each once, by
\* ascending index.
YieldsLive(items, p) ==
    /\ {items[k].index : k \in DOMAIN items} = LiveIn(p)
    /\ \A k, l \in DOMAIN items : k < l => items[k].index < items[l].index
    /\ \A k \in DOMAIN items :
          /\ items[k].unit = p.pool[items[k].index]
          /\ unit_is_spawned(items[k].unit)
          /\ items[k].unit.spawn_pool_index = items[k].index

\* C19: in every reachable pool state iter and iter_mut yield exactly the units
\* whose live bit is set, each exactly once, in ascending slot-index order; a
\* despawned slot is never yielded, and after clear() nothing is yielded.
C19_IterYieldsLive ==
    /\ YieldsLive(pool_iter(unit_spawn_pool), unit_spawn_pool)
    /\ YieldsLive(pool_iter_mut(unit_spawn_pool), unit_spawn_pool)
    /\ (Called("iter") \/ Called("iter_mut")) => YieldsLive(ret.items, unit_spawn_pool)
    /\ (Called("clear") /\ ~panicked) =>
          (pool_iter(unit_spawn_pool) = <<>> /\ pool_iter_mut(unit_spawn_pool) = <<>>)

\* A loop has skipped a despawned slot lying between two live ones.
C19_Witness ==
    /\ Called("iter_mut")
    /\ Len(ret.items) = 2
    /\ \E i \in ClearIn(unit_spawn_pool) :
          ret.items[1].index < i /\ i < ret.items[2].index

----------------------------------------------------------------------------
(* BuildingList and World (game/src/game/sim/world.rs), with the tile map   *)
(* World is given.  Every tile of a building or a unit covers the one cell  *)
(* it is placed on.                                                         *)

NumCells == 2         \* cells of the tile map

Cells == 1..NumCells

\* BuildingArchetypeKind, and the position `kind as usize` of its list.
ArchetypeKinds == {"Producer", "Storage", "Service", "House"}

archetype_as_usize(archetype_kind) ==
    CASE archetype_kind = "Producer" -> 0
      [] archetype_kind = "Storage"  -> 1
      [] archetype_kind = "Service"  -> 2
      [] archetype_kind = "House"    -> 3

\* BuildingKind::archetype_kind.
kind_archetype_kind(building_kind) ==
    CASE building_kind \in {"WellSmall", "WellBig", "Market"} -> "Service"
      [] building_kind = "House"                              -> "House"
      [] building_kind = "Farm"                               -> "Producer"
      [] building_kind \in {"Granary", "StorageYard"}         -> "Storage"

\* Building::new(kind, cell_range, archetype), and Building::archetype_kind:
\* the kind of the archetype the building was made with.
\* Option<Building>::None.
NoBuilding == [kind |-> None, base_cell |-> 0, archetype |-> None]

building_new(building_kind, cell, archetype_kind) ==
    [kind |-> building_kind, base_cell |-> cell, archetype |-> archetype_kind]

building_archetype_kind(building) == building.archetype

\* BuildingKind::bits: one bit per kind, as a u32.
BuildingKinds == {"WellSmall", "WellBig", "Market", "House", "Farm", "Granary", "StorageYard"}

kind_bits(building_kind) ==
    CASE building_kind = "WellSmall"   -> U32(1)
      [] building_kind = "WellBig"     -> U32(2)
      [] building_kind = "Market"      -> U32(4)
      [] building_kind = "House"       -> U32(8)
      [] building_kind = "Farm"        -> U32(16)
      [] building_kind = "Granary"     -> U32(32)
      [] building_kind = "StorageYard" -> U32(64)

\* GameStateHandle: the slot index and the kind tag a tile carries.
InvalidHandle == [index |-> NoSlot, kind |-> U32(0)]

handle_new(index, kind) == [index |-> index, kind |-> kind]

handle_is_valid(handle) == handle.index # NoSlot

\* BuildingKind::from_game_state_handle: the kind whose bits the tag holds,
\* None for a tag that is no building kind's.
from_game_state_handle(handle) ==
    IF \E kind \in BuildingKinds : kind_bits(kind) = handle.kind
    THEN CHOOSE kind \in BuildingKinds : kind_bits(kind) = handle.kind
    ELSE None

\* World::UNIT_GAME_STATE_KIND, the kind tag of every unit's handle.
UNIT_GAME_STATE_KIND == [hi |-> 43981, lo |-> 4660]

\* The tile definitions of units, and TileDef::is(TileKind): the kind of tile a
\* definition makes.
UnitTileDefs == {"ped"}

tile_def_kind(tile_def) == IF tile_def \in UnitTileDefs THEN "Unit" ELSE "Building"

\* A tile of the Objects layer; a cell without one holds EmptyTile.
EmptyTile == [name |-> None, kind |-> None, cell |-> 0, handle |-> InvalidHandle]

new_tile(name, cell) ==
    [name |-> name, kind |-> tile_def_kind(name), cell |-> cell, handle |-> InvalidHandle]

\* TileMap::try_place_tile: the tile is placed unless the cell is taken.
try_place_tile(tiles, cell, tile_def) ==
    IF tiles[cell] # EmptyTile THEN [ok |-> FALSE, tiles |-> tiles]
    ELSE [ok |-> TRUE, tiles |-> [tiles EXCEPT ![cell] = new_tile(tile_def, cell)]]

\* TileMap::find_tile(cell, Objects, tile_kinds): the tile at the cell when it
\* is of the kind asked for, EmptyTile standing for None.
find_tile(tiles, cell, tile_kinds) ==
    IF cell \in DOMAIN tiles /\ tiles[cell].kind = tile_kinds THEN tiles[cell] ELSE EmptyTile

try_clear_tile_from_layer(tiles, cell) ==
    IF tiles[cell] = EmptyTile THEN [ok |-> FALSE, tiles |-> tiles]
    ELSE [ok |-> TRUE, tiles |-> [tiles EXCEPT ![cell] = EmptyTile]]

\* building::config::instantiate: the building for a tile, by the tile's name;
\* None for a name it does not know.
instantiate(tile) ==
    CASE tile.name = "well_small"   -> building_new("WellSmall", tile.cell, "Service")
      [] tile.name = "well_big"     -> building_new("WellBig", tile.cell, "Service")
      [] tile.name = "market"       -> building_new("Market", tile.cell, "Service")
      [] tile.name = "house0"       -> building_new("House", tile.cell, "House")
      [] tile.name \in {"rice_farm", "livestock_farm"}
                                    -> building_new("Farm", tile.cell, "Producer")
      [] tile.name = "granary"      -> building_new("Granary", tile.cell, "Storage")
      [] tile.name = "storage_yard" -> building_new("StorageYard", tile.cell, "Storage")
      [] OTHER                      -> NoBuilding

\* Slab: entries are occupied or vacant; the vacant ones form a list, last
\* vacated first, that starts at next (next = len: no vacant entry).
slab_new == [entries |-> <<>>, next |-> 0]

slab_vacant(next) == [vacant |-> TRUE, next |-> next, building |-> NoBuilding]

slab_occupied(building) == [vacant |-> FALSE, next |-> NoSlot, building |-> building]

slab_contains(slab, key) == key \in DOMAIN slab.entries /\ ~slab.entries[key].vacant

slab_insert(slab, building) ==
    LET key == slab.next
    IN  IF key = VecLen(slab.entries)
        THEN [key |-> key,
              slab |-> [entries |-> VecPush(slab.entries, slab_occupied(building)),
                        next |-> key + 1]]
        ELSE [key |-> key,
              slab |-> [entries |-> [slab.entries EXCEPT ![key] = slab_occupied(building)],
                        next |-> slab.entries[key].next]]

slab_try_remove(slab, key) ==
    IF slab_contains(slab, key)
    THEN [removed |-> TRUE,
          slab |-> [entries |-> [slab.entries EXCEPT ![key] = slab_vacant(slab.next)],
                    next |-> key]]
    ELSE [removed |-> FALSE, slab |-> slab]

\* BuildingList.
list_new(archetype_kind) == [archetype_kind |-> archetype_kind, buildings |-> slab_new]

list_clear(list) == [list EXCEPT !.buildings = slab_new]

list_try_get(list, index) ==
    IF slab_contains(list.buildings, index) THEN list.buildings.entries[index].building
    ELSE NoBuilding

list_add(list, building, dbg) ==
    LET r == slab_insert(list.buildings, building)
    IN  IF dbg /\ building_archetype_kind(building) # list.archetype_kind
        THEN [panic |-> TRUE, index |-> NoSlot, list |-> list]
        ELSE [panic |-> FALSE, index |-> r.key, list |-> [list EXCEPT !.buildings = r.slab]]

list_remove(list, index) ==
    LET r == slab_try_remove(list.buildings, index)
    IN  [ok |-> r.removed, list |-> [list EXCEPT !.buildings = r.slab]]

\* World: the lists, the pool and the tile map as one value.
World(lists, pool, tiles) ==
    [building_lists |-> lists, unit_spawn_pool |-> pool, tile_map |-> tiles]

world_new_lists ==
    [i \in 0..3 |-> list_new(CHOOSE kind \in ArchetypeKinds : archetype_as_usize(kind) = i)]

\* Mutant: every archetype is sent to the first list.
buildings_list_first(archetype_kind) == 0

\* The position in building_lists of World::buildings_list(_mut)(archetype_kind).
buildings_list(archetype_kind) == archetype_as_usize(archetype_kind)

\* Mutant: the tile is left without the handle of its building.
published_handle_invalid(index, building_kind) == InvalidHandle

\* The handle try_spawn_building_with_tile_def sets on the tile.
published_handle(index, building_kind) == handle_new(index, kind_bits(building_kind))

WorldResult(panic, ok, w, index) == [panic |-> panic, ok |-> ok, world |-> w, index |-> index]

try_spawn_building_with_tile_def(w, target_cell, tile_def, dbg) ==
    LET placed == try_place_tile(w.tile_map, target_cell, tile_def)
        tile == placed.tiles[target_cell]
        building == instantiate(tile)
        archetype_kind == building_archetype_kind(building)
        at == buildings_list(archetype_kind)
        added == list_add(w.building_lists[at], building, dbg)
        building_kind == building.kind
        handle == published_handle(added.index, building_kind)
    IN  IF ~placed.ok THEN WorldResult(FALSE, FALSE, w, NoSlot)
        ELSE IF building = NoBuilding
        THEN WorldResult(FALSE, FALSE, [w EXCEPT !.tile_map = placed.tiles], NoSlot)
        ELSE IF \/ dbg /\ w.building_lists[at].archetype_kind # archetype_kind
                \/ added.panic
        THEN WorldResult(TRUE, FALSE, w, NoSlot)
        ELSE WorldResult(FALSE, list_try_get(added.list, added.index) # NoBuilding,
                         [w EXCEPT !.building_lists[at] = added.list,
                                   !.tile_map = [placed.tiles EXCEPT ![target_cell].handle = handle]],
                         added.index)

\* What despawn_building and despawn_building_at_cell do once they have the
\* base cell of the tile.
despawn_building_at_cell(w, tile_base_cell, dbg) ==
    LET tile == find_tile(w.tile_map, tile_base_cell, "Building")
        game_state == tile.handle
        cleared == try_clear_tile_from_layer(w.tile_map, tile_base_cell)
        building_kind == from_game_state_handle(game_state)
        archetype_kind == kind_archetype_kind(building_kind)
        at == buildings_list(archetype_kind)
        removed == list_remove(w.building_lists[at], game_state.index)
    IN  IF tile = EmptyTile \/ ~handle_is_valid(game_state) \/ ~cleared.ok
        THEN WorldResult(FALSE, FALSE, w, NoSlot)
        ELSE IF dbg /\ w.building_lists[at].archetype_kind # archetype_kind
        THEN WorldResult(TRUE, FALSE, w, NoSlot)
        ELSE WorldResult(FALSE, removed.ok,
                         [w EXCEPT !.building_lists[at] = removed.list,
                                   !.tile_map = cleared.tiles],
                         game_state.index)

\* despawn_building(building): building is a reference to the entry at index
\* of the list at position at.
despawn_building(w, at, index, dbg) ==
    despawn_building_at_cell(w, w.building_lists[at].buildings.entries[index].building.base_cell, dbg)

world_reset(w, dbg) ==
    LET cleared == pool_clear(w.unit_spawn_pool, dbg)
    IN  WorldResult(cleared.panic, TRUE,
                    [w EXCEPT !.building_lists = [i \in DOMAIN @ |-> list_clear(@[i])],
                              !.unit_spawn_pool = cleared.pool],
                    NoSlot)

\* UnitConfigs::find_config_by_hash and TileSets::find_tile_def_by_hash: the
\* tile definition named by the config of the key, None when the tile sets
\* have no such definition.
unit_config_tile_def(unit_config_key) ==
    IF unit_config_key \in UnitTileDefs THEN unit_config_key ELSE None

try_spawn_unit_with_tile_def(w, target_cell, tile_def, dbg) ==
    LET placed == try_place_tile(w.tile_map, target_cell, tile_def)
        spawned == pool_spawn(w.unit_spawn_pool, target_cell, dbg)
        handle == handle_new(spawned.index, UNIT_GAME_STATE_KIND)
    IN  IF ~placed.ok THEN WorldResult(FALSE, FALSE, w, NoSlot)
        ELSE IF spawned.panic \/ (dbg /\ ~unit_is_spawned(spawned.unit))
        THEN WorldResult(TRUE, FALSE, w, NoSlot)
        ELSE WorldResult(FALSE, TRUE,
                         [w EXCEPT !.unit_spawn_pool = spawned.pool,
                                   !.tile_map = [placed.tiles EXCEPT ![target_cell].handle = handle]],
                         spawned.index)

try_spawn_unit_with_config(w, target_cell, unit_config_key, dbg) ==
    LET tile_def == unit_config_tile_def(unit_config_key)
    IN  IF tile_def = None THEN WorldResult(FALSE, FALSE, w, NoSlot)
        ELSE try_spawn_unit_with_tile_def(w, target_cell, tile_def, dbg)

\* Mutant: the unit is put back into the pool and its tile is left in place.
despawn_unit_at_cell_keeps_tile(w, tile_base_cell, dbg) ==
    LET tile == find_tile(w.tile_map, tile_base_cell, "Unit")
        game_state == tile.handle
        spawn_pool_index == game_state.index
        despawned == pool_despawn_index(w.unit_spawn_pool, spawn_pool_index, dbg)
    IN  IF tile = EmptyTile \/ ~handle_is_valid(game_state)
        THEN WorldResult(FALSE, FALSE, w, NoSlot)
        ELSE IF dbg /\ game_state.kind # UNIT_GAME_STATE_KIND
        THEN WorldResult(TRUE, FALSE, w, NoSlot)
        ELSE IF despawned.panic THEN WorldResult(TRUE, FALSE, w, NoSlot)
        ELSE WorldResult(FALSE, TRUE, [w EXCEPT !.unit_spawn_pool = despawned.pool],
                         spawn_pool_index)

despawn_unit_at_cell(w, tile_base_cell, dbg) ==
    LET tile == find_tile(w.tile_map, tile_base_cell, "Unit")
        game_state == tile.handle
        spawn_pool_index == game_state.index
        cleared == try_clear_tile_from_layer(w.tile_map, tile_base_cell)
        despawned == pool_despawn_index(w.unit_spawn_pool, spawn_pool_index, dbg)
    IN  IF tile = EmptyTile \/ ~handle_is_valid(game_state)
        THEN WorldResult(FALSE, FALSE, w, NoSlot)
        ELSE IF dbg /\ game_state.kind # UNIT_GAME_STATE_KIND
        THEN WorldResult(TRUE, FALSE, w, NoSlot)
        ELSE IF ~cleared.ok THEN WorldResult(FALSE, FALSE, w, NoSlot)
        ELSE IF despawned.panic THEN WorldResult(TRUE, FALSE, w, NoSlot)
        ELSE WorldResult(FALSE, TRUE,
                         [w EXCEPT !.unit_spawn_pool = despawned.pool,
                                   !.tile_map = cleared.tiles],
                         spawn_pool_index)

\* despawn_unit(unit): unit is a reference to the record at unit_ref of the
\* pool; Unit::cell is the cell of the tile the unit was spawned on.
despawn_unit(w, unit_ref, dbg) ==
    LET unit == w.unit_spawn_pool.pool[unit_ref]
        tile_base_cell == unit.tile
        tile == find_tile(w.tile_map, tile_base_cell, "Unit")
        game_state == tile.handle
        cleared == try_clear_tile_from_layer(w.tile_map, tile_base_cell)
        despawned == pool_despawn(w.unit_spawn_pool, unit_ref, dbg)
    IN  IF dbg /\ tile_base_cell = NoTile THEN WorldResult(TRUE, FALSE, w, NoSlot)
        ELSE IF tile = EmptyTile \/ ~handle_is_valid(game_state)
        THEN WorldResult(FALSE, FALSE, w, NoSlot)
        ELSE IF dbg /\ game_state.kind # UNIT_GAME_STATE_KIND
        THEN WorldResult(TRUE, FALSE, w, NoSlot)
        ELSE IF ~cleared.ok THEN WorldResult(FALSE, FALSE, w, NoSlot)
        ELSE IF despawned.panic THEN WorldResult(TRUE, FALSE, w, NoSlot)
        ELSE WorldResult(FALSE, TRUE,
                         [w EXCEPT !.unit_spawn_pool = despawned.pool,
                                   !.tile_map = cleared.tiles],
                         unit_ref)

(* The world and a caller. *)

\* The building tiles a caller places; house1 is one that instantiate does not
\* know.
TileDefs == {"well_small", "market", "granary", "house1"}

TheWorld == World(building_lists, unit_spawn_pool, tile_map)

WorldCall(op, cell, tile_def, at, index) ==
    [op |-> op, cell |-> cell, tile_def |-> tile_def, at |-> at, index |-> index]

WorldRet(ok, index) == [ok |-> ok, index |-> index]

WorldStep(c, r) ==
    /\ Idle
    /\ call' = c
    /\ ret' = WorldRet(r.ok, r.index)
    /\ building_lists' = r.world.building_lists
    /\ unit_spawn_pool' = r.world.unit_spawn_pool
    /\ tile_map' = r.world.tile_map
    /\ panicked' = r.panic
    /\ before' = TheWorld
    /\ UNCHANGED <<slots, slot_capacity, debug_build, hist, config, sim_vars>>

TrySpawnBuildingWithTileDef(target_cell, tile_def) ==
    WorldStep(WorldCall("try_spawn_building_with_tile_def", target_cell, tile_def, NoSlot, NoSlot),
              try_spawn_building_with_tile_def(TheWorld, target_cell, tile_def, debug_build))

\* The caller despawns a building it holds a reference to: one stored in a list.
DespawnBuilding(at, index) ==
    /\ slab_contains(building_lists[at].buildings, index)
    /\ WorldStep(WorldCall("despawn_building", 0, None, at, index),
                 despawn_building(TheWorld, at, index, debug_build))

DespawnBuildingAtCell(tile_base_cell) ==
    WorldStep(WorldCall("despawn_building_at_cell", tile_base_cell, None, NoSlot, NoSlot),
              despawn_building_at_cell(TheWorld, tile_base_cell, debug_build))

\* The unit config keys a caller passes; nomad is one whose tile definition
\* the tile sets do not have.
UnitConfigKeys == {"ped", "nomad"}

TrySpawnUnitWithTileDef(target_cell, tile_def) ==
    /\ first_zero(unit_spawn_pool.is_spawned_flags) # NoSlot
       \/ VecLen(unit_spawn_pool.pool) < MaxPoolLen
    /\ WorldStep(WorldCall("try_spawn_unit_with_tile_def", target_cell, tile_def, NoSlot, NoSlot),
                 try_spawn_unit_with_tile_def(TheWorld, target_cell, tile_def, debug_build))

TrySpawnUnitWithConfig(target_cell, unit_config_key) ==
    /\ first_zero(unit_spawn_pool.is_spawned_flags) # NoSlot
       \/ VecLen(unit_spawn_pool.pool) < MaxPoolLen
    /\ WorldStep(WorldCall("try_spawn_unit_with_config", target_cell, unit_config_key, NoSlot, NoSlot),
                 try_spawn_unit_with_config(TheWorld, target_cell, unit_config_key, debug_build))

\* The caller despawns a unit it holds a reference to: a live one.
DespawnUnit(unit_ref) ==
    /\ unit_spawn_pool.is_spawned_flags[unit_ref]
    /\ WorldStep(WorldCall("despawn_unit", 0, None, NoSlot, unit_ref),
                 despawn_unit(TheWorld, unit_ref, debug_build))

DespawnUnitAtCell(tile_base_cell) ==
    WorldStep(WorldCall("despawn_unit_at_cell", tile_base_cell, None, NoSlot, NoSlot),
              despawn_unit_at_cell(TheWorld, tile_base_cell, debug_build))

Reset ==
    WorldStep(WorldCall("reset", 0, None, NoSlot, NoSlot), world_reset(TheWorld, debug_build))

WorldReturn ==
    /\ call # NoCall
    /\ ~panicked
    /\ call' = NoCall
    /\ ret' = NoRet
    /\ before' = TheWorld
    /\ UNCHANGED <<slots, slot_capacity, debug_build, panicked, hist, config, sim_vars, world_vars>>

InitWorldWith(capacity) ==
    /\ building_lists = world_new_lists
    /\ unit_spawn_pool = pool_new(capacity)
    /\ tile_map = [cell \in Cells |-> EmptyTile]
    /\ config = StorageConfig(ResourcesAccepted, NumSlots, SlotCapacity)
    /\ slots = new_slots(ResourcesAccepted, NumSlots)
    /\ slot_capacity = SlotCapacity
    /\ debug_build \in BOOLEAN
    /\ before = TheWorld
    /\ call = NoCall
    /\ ret = NoRet
    /\ panicked = FALSE
    /\ hist = <<>>
    /\ NoSim

InitWorld == InitWorldWith(PoolCapacity)

NextWorld ==
    \/ \E target_cell \in Cells, tile_def \in TileDefs :
          TrySpawnBuildingWithTileDef(target_cell, tile_def)
    \/ \E at \in DOMAIN building_lists :
          \E index \in DOMAIN building_lists[at].buildings.entries : DespawnBuilding(at, index)
    \/ \E tile_base_cell \in Cells : DespawnBuildingAtCell(tile_base_cell)
    \/ Reset
    \/ WorldReturn

SpecWorld == InitWorld /\ [][NextWorld]_vars

(* The world with its units: buildings of one archetype and units share the *)
(* cells of the Objects layer.  The pool starts with any capacity up to     *)
(* PoolCapacity, so that it also has to grow.                               *)

\* The building tiles placed next to units.
EntityTileDefs == {"granary", "house1"}

InitEntities == \E capacity \in 0..PoolCapacity : InitWorldWith(capacity)

NextEntities ==
    \/ \E target_cell \in Cells, tile_def \in EntityTileDefs :
          TrySpawnBuildingWithTileDef(target_cell, tile_def)
    \/ \E at \in DOMAIN building_lists :
          \E index \in DOMAIN building_lists[at].buildings.entries : DespawnBuilding(at, index)
    \/ \E tile_base_cell \in Cells : DespawnBuildingAtCell(tile_base_cell)
    \/ \E target_cell \in Cells, tile_def \in UnitTileDefs :
          TrySpawnUnitWithTileDef(target_cell, tile_def)
    \/ \E target_cell \in Cells, unit_config_key \in UnitConfigKeys :
          TrySpawnUnitWithConfig(target_cell, unit_config_key)
    \/ \E unit_ref \in DOMAIN unit_spawn_pool.pool : DespawnUnit(unit_ref)
    \/ \E tile_base_cell \in Cells : DespawnUnitAtCell(tile_base_cell)
    \/ Reset
    \/ WorldReturn

SpecEntities == InitEntities /\ [][NextEntities]_vars

\* Where buildings are stored: the pairs of a list position and a slab index
\* holding a building.
Stored(lists) ==
    {x \in UNION {{<<at, index>> : index \in DOMAIN lists[at].buildings.entries} :
                     at \in DOMAIN lists} :
        slab_contains(lists[x[1]].buildings, x[2])}

BuildingAt(lists, x) == lists[x[1]].buildings.entries[x[2]].building

\* Where the building spawned at cell is stored.
StoredOf(lists, cell) == {x \in Stored(lists) : BuildingAt(lists, x).base_cell = cell}

\* C20: after any sequence of try_spawn_building_with_tile_def,
\* despawn_building, despawn_building_at_cell and reset, every building stored
\* in a list has the archetype kind of that list, and each spawned building is
\* stored in exactly one of the four lists.
C20_ArchetypePartition ==
    /\ \A x \in Stored(building_lists) :
          /\ building_archetype_kind(BuildingAt(building_lists, x))
                = building_lists[x[1]].archetype_kind
          /\ kind_archetype_kind(BuildingAt(building_lists, x).kind)
                = building_lists[x[1]].archetype_kind
    /\ \A cell \in Cells : Cardinality(StoredOf(building_lists, cell)) <= 1
    /\ (Called("try_spawn_building_with_tile_def") /\ ~panicked /\ ret.ok) =>
          /\ StoredOf(building_lists, call.cell)
                = {<<buildings_list(kind_archetype_kind(
                           from_game_state_handle(tile_map[call.cell].handle))), ret.index>>}
          /\ StoredOf(before.building_lists, call.cell) = {}

\* A building has been spawned into a vacated entry of its list while another
\* list holds a building.
C20_Witness ==
    /\ Called("try_spawn_building_with_tile_def") /\ ~panicked /\ ret.ok
    /\ \E x \in StoredOf(building_lists, call.cell) :
          /\ x[2] \in DOMAIN before.building_lists[x[1]].buildings.entries
          /\ \E y \in Stored(building_lists) : y[1] # x[1]

\* The base cell of the building a despawn_building call in progress was given.
DespawnedCell == before.building_lists[call.at].buildings.entries[call.index].building.base_cell

\* C21: after a successful try_spawn_building_with_tile_def of a building of
\* kind K the tile's handle is valid, its tag decodes to K and its index is
\* the index the list's add returned, where the list of K's archetype stores
\* the building; after a successful despawn_building or
\* despawn_building_at_cell the tile at that cell carries no valid handle.
C21_HandleRoundTrip ==
    /\ (Called("try_spawn_building_with_tile_def") /\ ~panicked /\ ret.ok) =>
          LET tile == tile_map[call.cell]
              K == instantiate(new_tile(call.tile_def, call.cell)).kind
          IN  /\ handle_is_valid(tile.handle)
              /\ from_game_state_handle(tile.handle) = K
              /\ tile.handle.index = ret.index
              /\ list_try_get(building_lists[buildings_list(kind_archetype_kind(K))], ret.index)
                    = building_new(K, call.cell, kind_archetype_kind(K))
    /\ (Called("despawn_building_at_cell") /\ ~panicked /\ ret.ok) =>
          ~handle_is_valid(find_tile(tile_map, call.cell, "Building").handle)
    /\ (Called("despawn_building") /\ ~panicked /\ ret.ok) =>
          ~handle_is_valid(find_tile(tile_map, DespawnedCell, "Building").handle)

\* A market has been spawned next to another service building.
C21_Witness ==
    /\ Called("try_spawn_building_with_tile_def") /\ ~panicked /\ ret.ok
    /\ from_game_state_handle(tile_map[call.cell].handle) = "Market"
    /\ ret.index > 0

\* C22: when try_spawn_building_with_tile_def has returned, Ok or Err, every
\* Building tile of the Objects layer carries a valid handle.
C22_BuildingTilesHaveHandles ==
    (Called("try_spawn_building_with_tile_def") /\ ~panicked) =>
        \A cell \in Cells :
            tile_map[cell].kind = "Building" => handle_is_valid(tile_map[cell].handle)

\* The despawn call in progress: which of the four it is, the cell whose tile
\* it looks for and the kind of tile it asks for.
IsDespawn ==
    call.op \in {"despawn_building", "despawn_building_at_cell", "despawn_unit",
                 "despawn_unit_at_cell"}

DespawnCell ==
    CASE call.op = "despawn_building" -> DespawnedCell
      [] call.op = "despawn_unit"     -> before.unit_spawn_pool.pool[call.index].tile
      [] OTHER                        -> call.cell

DespawnKind ==
    IF call.op \in {"despawn_unit", "despawn_unit_at_cell"} THEN "Unit" ELSE "Building"

\* C23: in the four despawn operations the tile is cleared before the entity
\* is released: a call that finds no tile of its kind at the cell, finds one
\* without a valid handle or cannot clear it returns Err with the building
\* lists and the unit pool as they were, and a call that changed a list or
\* the pool has cleared the tile.
C23_ClearThenRelease ==
    (IsDespawn /\ ~panicked) =>
        LET tile == find_tile(before.tile_map, DespawnCell, DespawnKind)
        IN  /\ ( \/ tile = EmptyTile
                 \/ ~handle_is_valid(tile.handle)
                 \/ ~try_clear_tile_from_layer(before.tile_map, DespawnCell).ok )
                    => /\ ~ret.ok
                       /\ building_lists = before.building_lists
                       /\ unit_spawn_pool = before.unit_spawn_pool
            /\ (building_lists # before.building_lists \/ unit_spawn_pool # before.unit_spawn_pool)
                    => /\ before.tile_map[DespawnCell] # EmptyTile
                       /\ tile_map[DespawnCell] = EmptyTile

\* despawn_building_at_cell has met a building tile without a valid handle.
C23_Witness ==
    /\ Called("despawn_building_at_cell") /\ ~panicked /\ ~ret.ok
    /\ before.tile_map[call.cell].kind = "Building"
    /\ ~handle_is_valid(before.tile_map[call.cell].handle)

\* C24: a spawn or despawn call of World that returns Err leaves the tile map,
\* every building list and the unit pool as they were before the call.
C24_ErrLeavesWorldUnchanged ==
    ( /\ call.op \in {"try_spawn_building_with_tile_def", "try_spawn_unit_with_tile_def",
                       "try_spawn_unit_with_config"}
         \/ IsDespawn
      /\ ~panicked
      /\ ~ret.ok )
    => TheWorld = before

\* C25: a removal asked for an index that is already vacant returns Err and
\* leaves the list or the pool unchanged: despawn_building_at_cell whose
\* tile names a vacant slab index, and despawn_unit_at_cell whose tile names
\* a pool slot whose live bit is clear.
C25_VacantRemovalIsErr ==
    /\ (Called("despawn_building_at_cell") /\ ~panicked) =>
          LET handle == find_tile(before.tile_map, call.cell, "Building").handle
              at == buildings_list(kind_archetype_kind(from_game_state_handle(handle)))
          IN  (handle_is_valid(handle)
                  /\ ~slab_contains(before.building_lists[at].buildings, handle.index))
              => (~ret.ok /\ building_lists = before.building_lists)
    /\ (Called("despawn_unit_at_cell") /\ ~panicked) =>
          LET handle == find_tile(before.tile_map, call.cell, "Unit").handle
          IN  (handle_is_valid(handle)
                  /\ ~before.unit_spawn_pool.is_spawned_flags[handle.index])
              => (~ret.ok /\ unit_spawn_pool = before.unit_spawn_pool)

----------------------------------------------------------------------------
(* Simulation and UpdateTimer (src/game/sim/mod.rs).  Time is counted in    *)
(* tenths of a second; the world the simulation updates holds no entity.    *)

DEFAULT_SIM_UPDATE_FREQUENCY_SECS == 5

MaxDelta == 3         \* longest frame time fed to Simulation::update
MaxFrames == 4        \* Simulation::update calls recorded in hist

timer_new(update_frequency_secs) ==
    [update_frequency_secs |-> update_frequency_secs, time_since_last_update_secs |-> 0]

\* Mutant: the clock is not advanced.
tick_stalled(timer, delta_time_secs) ==
    IF timer.time_since_last_update_secs >= timer.update_frequency_secs
    THEN [timer |-> [timer EXCEPT !.time_since_last_update_secs = 0], should_update |-> TRUE]
    ELSE [timer |-> timer, should_update |-> FALSE]

\* UpdateTimer::tick.
tick(timer, delta_time_secs) ==
    IF timer.time_since_last_update_secs >= timer.update_frequency_secs
    THEN [timer |-> [timer EXCEPT !.time_since_last_update_secs = 0], should_update |-> TRUE]
    ELSE [timer |-> [timer EXCEPT !.time_since_last_update_secs = @ + delta_time_secs],
          should_update |-> FALSE]

\* Simulation::update: the timer it leaves, the number of World::update calls
\* it made and the delta it gave to World::update.
simulation_update(timer, delta_time) ==
    LET world_update_delta_time_secs == timer.time_since_last_update_secs
        ticked == tick(timer, delta_time)
    IN  [timer |-> ticked.timer,
         updates |-> IF ticked.should_update THEN 1 ELSE 0,
         world_delta |-> IF ticked.should_update THEN world_update_delta_time_secs ELSE 0]

SimCall(delta_time) == [op |-> "update", delta_time |-> delta_time]

SimRet(updates, world_delta) == [updates |-> updates, world_delta |-> world_delta]

SimulationUpdate(delta_time) ==
    LET r == simulation_update(update_timer, delta_time)
    IN  /\ Idle
        /\ Len(hist) < MaxFrames
        /\ call' = SimCall(delta_time)
        /\ ret' = SimRet(r.updates, r.world_delta)
        /\ update_timer' = r.timer
        /\ before' = update_timer
        /\ hist' = Append(hist, [delta_time |-> delta_time, updates |-> r.updates,
                                 world_delta |-> r.world_delta])
        /\ UNCHANGED <<slots, slot_capacity, debug_build, panicked, config, world_vars, visitor>>

SimReturn ==
    /\ call # NoCall
    /\ ~panicked
    /\ call' = NoCall
    /\ ret' = NoRet
    /\ before' = update_timer
    /\ UNCHANGED <<slots, slot_capacity, debug_build, panicked, hist, config, world_vars,
                   sim_vars>>

\* Simulation::new, with World::new and an empty tile map.
InitSim ==
    /\ update_timer = timer_new(DEFAULT_SIM_UPDATE_FREQUENCY_SECS)
    /\ visitor = NoVisitor
    /\ building_lists = world_new_lists
    /\ unit_spawn_pool = pool_new(PoolCapacity)
    /\ tile_map = [cell \in Cells |-> EmptyTile]
    /\ config = StorageConfig(ResourcesAccepted, NumSlots, SlotCapacity)
    /\ slots = new_slots(ResourcesAccepted, NumSlots)
    /\ slot_capacity = SlotCapacity
    /\ debug_build \in BOOLEAN
    /\ before = update_timer
    /\ call = NoCall
    /\ ret = NoRet
    /\ panicked = FALSE
    /\ hist = <<>>

NextSim ==
    \/ \E delta_time \in 0..MaxDelta : SimulationUpdate(delta_time)
    \/ SimReturn

SpecSim == InitSim /\ [][NextSim]_vars

\* The World::update calls made by the Simulation::update calls i..Len(h) of h.
RECURSIVE UpdatesFrom(_, _)
UpdatesFrom(h, i) == IF i > Len(h) THEN 0 ELSE h[i].updates + UpdatesFrom(h, i + 1)

\* C26: with update frequency 0.5 s and a fresh Simulation, three
\* Simulation::update calls with deltas 0.2 s, 0.2 s, 0.2 s make exactly one
\* World::update in total, in the third call, and the accumulator is 0 after
\* that call.
C26_ThreeFramesOneUpdate ==
    ( /\ Len(hist) = 3
      /\ \A i \in 1..3 : hist[i].delta_time = 2 )
    => /\ UpdatesFrom(hist, 1) = 1
       /\ hist[3].updates = 1
       /\ update_timer.time_since_last_update_secs = 0

\* C27: a Simulation::update(dt) call made with accumulator a makes exactly
\* one World::update with delta a + dt and leaves the accumulator at 0 when
\* a + dt >= update frequency, and otherwise makes none and leaves a + dt; no
\* call makes more than one World::update.
C27_UpdateWhenThresholdReached ==
    Called("update") =>
        LET a == before.time_since_last_update_secs
            dt == call.delta_time
        IN  /\ ret.updates <= 1
            /\ IF a + dt >= update_timer.update_frequency_secs
               THEN /\ ret.updates = 1
                    /\ ret.world_delta = a + dt
                    /\ update_timer.time_since_last_update_secs = 0
               ELSE /\ ret.updates = 0
                    /\ update_timer.time_since_last_update_secs = a + dt

----------------------------------------------------------------------------
(* World::update (game/src/game/sim/world.rs): the entities it updates, in  *)
(* the order it updates them.  The update of a unit or a building leaves    *)
(* the lists, the pool and the tile map as they are.                        *)

\* slab::IterMut: the occupied entries from position pos on, by ascending key.
RECURSIVE slab_iter_from(_, _)
slab_iter_from(slab, pos) ==
    IF pos \notin DOMAIN slab.entries THEN <<>>
    ELSE IF slab.entries[pos].vacant THEN slab_iter_from(slab, pos + 1)
    ELSE <<[index |-> pos, building |-> slab.entries[pos].building]>>
            \o slab_iter_from(slab, pos + 1)

list_iter_mut(list) == slab_iter_from(list.buildings, 0)

UnitVisit(item) == [entity |-> "Unit", at |-> NoSlot, index |-> item.index]

BuildingVisit(at, item) == [entity |-> "Building", at |-> at, index |-> item.index]

\* Mutant: the units are updated from the last slot of the pool down.
units_updated_descending(pool) ==
    LET items == pool_iter_mut(pool)
    IN  [i \in 1..Len(items) |-> UnitVisit(items[Len(items) + 1 - i])]

\* The first loop of World::update.
units_updated(pool) ==
    LET items == pool_iter_mut(pool)
    IN  [i \in 1..Len(items) |-> UnitVisit(items[i])]

\* The second loop of World::update, from the list at position at on.
RECURSIVE buildings_updated_from(_, _)
buildings_updated_from(lists, at) ==
    IF at \notin DOMAIN lists THEN <<>>
    ELSE LET items == list_iter_mut(lists[at])
         IN  [i \in 1..Len(items) |-> BuildingVisit(at, items[i])]
                \o buildings_updated_from(lists, at + 1)

world_update(w, dbg) ==
    LET visits == units_updated(w.unit_spawn_pool) \o buildings_updated_from(w.building_lists, 0)
        mismatch == \E i \in 1..Len(visits) :
                        /\ visits[i].entity = "Building"
                        /\ building_archetype_kind(
                               w.building_lists[visits[i].at].buildings.entries[visits[i].index].building)
                              # w.building_lists[visits[i].at].archetype_kind
    IN  [panic |-> dbg /\ mismatch, world |-> w, visits |-> visits]

(* The world, its updates and, in hist, the base cells of the buildings it  *)
(* holds in the order they were spawned.                                    *)

UpdateTileDefs == {"granary", "market"}

\* The buildings' base cells in spawn order after the call c returned r.
spawn_order(c, r) ==
    IF ~r.ok \/ r.panic THEN hist
    ELSE IF c.op = "try_spawn_building_with_tile_def" THEN Append(hist, c.cell)
    ELSE SelectSeq(hist, LAMBDA cell : cell # c.cell)

\* A spawn or a despawn of a building, recorded: r is what the operation
\* returns.
Recorded(c, r) ==
    /\ Idle
    /\ call' = c
    /\ ret' = WorldRet(r.ok, r.index)
    /\ building_lists' = r.world.building_lists
    /\ unit_spawn_pool' = r.world.unit_spawn_pool
    /\ tile_map' = r.world.tile_map
    /\ panicked' = r.panic
    /\ before' = TheWorld
    /\ hist' = spawn_order(c, r)
    /\ UNCHANGED <<slots, slot_capacity, debug_build, config, sim_vars>>

RecordedSpawnBuilding(target_cell, tile_def) ==
    Recorded(WorldCall("try_spawn_building_with_tile_def", target_cell, tile_def, NoSlot, NoSlot),
             try_spawn_building_with_tile_def(TheWorld, target_cell, tile_def, debug_build))

RecordedDespawnBuildingAtCell(tile_base_cell) ==
    Recorded(WorldCall("despawn_building_at_cell", tile_base_cell, None, NoSlot, NoSlot),
             despawn_building_at_cell(TheWorld, tile_base_cell, debug_build))

Update ==
    LET r == world_update(TheWorld, debug_build)
    IN  /\ Idle
        /\ call' = WorldCall("update", 0, None, NoSlot, NoSlot)
        /\ ret' = [ok |-> TRUE, index |-> NoSlot, visits |-> r.visits]
        /\ panicked' = r.panic
        /\ before' = TheWorld
        /\ UNCHANGED <<slots, slot_capacity, debug_build, hist, config, world_vars, sim_vars>>

NextUpdate ==
    \/ \E target_cell \in Cells, tile_def \in UpdateTileDefs :
          RecordedSpawnBuilding(target_cell, tile_def)
    \/ \E target_cell \in Cells, tile_def \in UnitTileDefs :
          TrySpawnUnitWithTileDef(target_cell, tile_def)
    \/ \E tile_base_cell \in Cells : RecordedDespawnBuildingAtCell(tile_base_cell)
    \/ \E tile_base_cell \in Cells : DespawnUnitAtCell(tile_base_cell)
    \/ Update
    \/ WorldReturn

SpecUpdate == InitWorld /\ [][NextUpdate]_vars

\* The place in the spawn order of the building whose base cell is cell.
SpawnRank(cell) == CHOOSE i \in DOMAIN hist : hist[i] = cell

VisitedBuilding(visit) == building_lists[visit.at].buildings.entries[visit.index].building

\* C28: in one World::update every live unit is updated before any building,
\* the live units by ascending pool slot, and the buildings of each list by
\* ascending slot index; every live unit and every stored building is
\* updated once.
C28_UpdateOrder ==
    (Called("update") /\ ~panicked) =>
        LET visits == ret.visits
            N == Len(visits)
        IN  /\ \A i, j \in 1..N :
                  (i < j /\ visits[i].entity = "Building") => visits[j].entity = "Building"
            /\ \A i, j \in 1..N :
                  (i < j /\ visits[i].entity = "Unit" /\ visits[j].entity = "Unit")
                      => visits[i].index < visits[j].index
            /\ \A i, j \in 1..N :
                  (i < j /\ visits[i].entity = "Building" /\ visits[j].entity = "Building"
                         /\ visits[i].at = visits[j].at)
                      => visits[i].index < visits[j].index
            /\ {visits[i].index : i \in {k \in 1..N : visits[k].entity = "Unit"}}
                  = LiveIn(unit_spawn_pool)
            /\ {<<visits[i].at, visits[i].index>> : i \in {k \in 1..N : visits[k].entity = "Building"}}
                  = Stored(building_lists)

\* An update that visits two buildings of one list, the building spawned
\* later first: it took the slot a despawn had vacated.
C28_Witness ==
    /\ Called("update") /\ ~panicked
    /\ \E i, j \in 1..Len(ret.visits) :
          /\ i < j
          /\ ret.visits[i].entity = "Building" /\ ret.visits[j].entity = "Building"
          /\ ret.visits[i].at = ret.visits[j].at
          /\ SpawnRank(VisitedBuilding(ret.visits[i]).base_cell)
                > SpawnRank(VisitedBuilding(ret.visits[j]).base_cell)

----------------------------------------------------------------------------
(* StorageBuilding::visited_by (game/src/game/building/storage.rs).  The    *)
(* unit is its inventory, one item of a kind and a u32 count, and whether   *)
(* the context was asked to despawn it.                                     *)

Unit(kind, count) ==
    [kind |-> IF count = U32(0) THEN None ELSE kind, count |-> count, despawn_requested |-> FALSE]

is_inventory_empty(unit) == unit.count = U32(0)

\* Option<item>: an item of kind None stands for None.
peek_inventory(unit) ==
    IF is_inventory_empty(unit) THEN [kind |-> None, count |-> U32(0)]
    ELSE [kind |-> unit.kind, count |-> unit.count]

\* The unit hands over what it has of the kind, up to count.
give_resources(unit, kind, count) ==
    LET given == IF unit.kind = kind THEN U32Min(unit.count, count) ELSE U32(0)
        left  == wrapping_sub(unit.count, given)
    IN  [count |-> given,
         unit  |-> [unit EXCEPT !.count = left,
                                !.kind = IF left = U32(0) THEN None ELSE unit.kind]]

despawn_unit_request(unit) == [unit EXCEPT !.despawn_requested = TRUE]

\* Mutant: the storage receives the cargo and the unit keeps it.
visited_by_keeps_cargo(ss, capacity, unit, dbg) ==
    LET item == peek_inventory(unit)
    IN  IF item.kind = None THEN [panic |-> FALSE, slots |-> ss, unit |-> unit, count |-> U32(0)]
        ELSE LET r == receive_resources(ss, capacity, item.kind, item.count, dbg)
             IN  IF r.panic
                 THEN [panic |-> TRUE, slots |-> ss, unit |-> unit, count |-> U32(0)]
                 ELSE [panic |-> FALSE, slots |-> r.slots,
                       unit |-> IF is_inventory_empty(unit) THEN despawn_unit_request(unit)
                                ELSE unit,
                       count |-> r.count]

visited_by(ss, capacity, unit, dbg) ==
    LET item == peek_inventory(unit)
    IN  IF item.kind = None THEN [panic |-> FALSE, slots |-> ss, unit |-> unit, count |-> U32(0)]
        ELSE LET r == receive_resources(ss, capacity, item.kind, item.count, dbg)
                 g == IF r.count # U32(0) THEN give_resources(unit, item.kind, r.count)
                      ELSE [count |-> U32(0), unit |-> unit]
             IN  IF r.panic \/ (dbg /\ g.count # r.count)
                 THEN [panic |-> TRUE, slots |-> ss, unit |-> unit, count |-> U32(0)]
                 ELSE [panic |-> FALSE, slots |-> r.slots,
                       unit |-> IF is_inventory_empty(g.unit) THEN despawn_unit_request(g.unit)
                                ELSE g.unit,
                       count |-> r.count]

\* The call records the unit's cargo before the visit in call.kind and
\* call.amount, and what receive_resources returned in ret.count.
VisitedBy(kind, count) ==
    LET unit == Unit(kind, count)
        r == visited_by(slots, slot_capacity, unit, debug_build)
    IN  /\ Idle
        /\ call' = [NoCall EXCEPT !.op = "visited_by", !.kind = unit.kind, !.amount = unit.count]
        /\ slots' = r.slots
        /\ visitor' = r.unit
        /\ ret' = [NoRet EXCEPT !.count = r.count]
        /\ panicked' = r.panic
        /\ before' = slots
        /\ UNCHANGED <<slot_capacity, debug_build, hist, config, update_timer, world_vars>>

NextVisit ==
    \/ \E kind \in Kinds, count \in Amounts(slot_capacity) : VisitedBy(kind, count)
    \/ \E slot_index \in SlotIndices(slots), kind \in Kinds, sub_amount \in Amounts(slot_capacity) :
          DecrementSlotResourceCount(slot_index, kind, sub_amount) /\ UNCHANGED hist
    \/ Return /\ UNCHANGED hist

SpecVisit == Init /\ [][NextVisit]_vars

\* What the storage holds of the visiting unit's kind grew by.
VisitGain == Total(slots, call.kind) - Total(before, call.kind)

\* C29: visited_by conserves resources (what left the unit is what the
\* storage received); the unit is asked to be despawned exactly when it
\* carried cargo and its inventory is empty afterwards; a unit that could
\* unload only part of its cargo, or none, is not despawned; a unit without
\* cargo changes nothing.
C29_VisitConserves ==
    (Called("visited_by") /\ ~panicked) =>
        IF call.kind = None
        THEN slots = before /\ visitor = Unit(None, U32(0))
        ELSE /\ VisitGain >= 0
             /\ ~U32Less(call.amount, visitor.count)
             /\ wrapping_sub(call.amount, visitor.count) = U32(VisitGain)
             /\ visitor.despawn_requested <=> is_inventory_empty(visitor)
             /\ U32(VisitGain) # call.amount => ~visitor.despawn_requested

----------------------------------------------------------------------------
(* Query::is_near_building and Query::find_nearest_building                 *)
(* (src/game/sim/mod.rs), over a tile map of GridWidth x GridHeight cells.  *)
(* Cell (x, y) of the map is entry y * GridWidth + x + 1 of tile_map.       *)

GridWidth == 3        \* cells in a row of the tile map explored by SpecQuery
GridHeight == 2       \* rows of that tile map
MaxRadius == 1        \* largest radius_in_cells passed to a query
MaxBuildings == 2     \* tiles placed on that tile map at one time

GridCells == 1..(GridWidth * GridHeight)

Cell(x, y) == [x |-> x, y |-> y]

cell_of(index) == Cell((index - 1) % GridWidth, (index - 1) \div GridWidth)

\* The entry of tile_map for a cell; 0, which no tile map has, for a cell
\* outside the map.
tile_index(cell) ==
    IF cell.x \in 0..(GridWidth - 1) /\ cell.y \in 0..(GridHeight - 1)
    THEN cell.y * GridWidth + cell.x + 1
    ELSE 0

CellRange(start, end) == [start |-> start, end |-> end]

range_is_valid(range) == range.start.x <= range.end.x /\ range.start.y <= range.end.y

\* Iteration over a CellRange: row by row, each row by ascending x.
range_iter(range) ==
    LET width == range.end.x - range.start.x + 1
        height == range.end.y - range.start.y + 1
    IN  [i \in 1..(width * height) |->
            Cell(range.start.x + ((i - 1) % width), range.start.y + ((i - 1) \div width))]

calc_search_range(start_cells, radius_in_cells) ==
    CellRange(Cell(start_cells.start.x - radius_in_cells, start_cells.start.y - radius_in_cells),
              Cell(start_cells.end.x + radius_in_cells, start_cells.end.y + radius_in_cells))

\* The debug assertions of calc_search_range.
search_range_panics(start_cells, radius_in_cells, dbg) ==
    dbg /\ (~range_is_valid(start_cells) \/ radius_in_cells <= 0)

\* The test both loops make on a cell.
is_search_match(tiles, search_cell, kind) ==
    LET search_tile == find_tile(tiles, tile_index(search_cell), "Building")
    IN  /\ search_tile # EmptyTile
        /\ handle_is_valid(search_tile.handle)
        /\ from_game_state_handle(search_tile.handle) = kind

\* The place in the iteration of the first cell that matches, 0 for none.
first_match(tiles, cells, kind) ==
    IF \E i \in DOMAIN cells : is_search_match(tiles, cells[i], kind)
    THEN CHOOSE i \in DOMAIN cells :
            /\ is_search_match(tiles, cells[i], kind)
            /\ \A j \in 1..(i - 1) : ~is_search_match(tiles, cells[j], kind)
    ELSE 0

\* Mutant: the handle's index is not used, the first entry of the list is.
find_building_for_tile_first(w, tile, dbg) ==
    IF ~handle_is_valid(tile.handle) THEN [panic |-> FALSE, building |-> NoBuilding]
    ELSE LET archetype_kind == kind_archetype_kind(from_game_state_handle(tile.handle))
             list == w.building_lists[buildings_list(archetype_kind)]
         IN  [panic |-> dbg /\ list.archetype_kind # archetype_kind,
              building |-> list_try_get(list, 0)]

\* World::find_building_for_tile(_mut); NoBuilding stands for None.
find_building_for_tile(w, tile, dbg) ==
    IF ~handle_is_valid(tile.handle) THEN [panic |-> FALSE, building |-> NoBuilding]
    ELSE LET archetype_kind == kind_archetype_kind(from_game_state_handle(tile.handle))
             list == w.building_lists[buildings_list(archetype_kind)]
         IN  [panic |-> dbg /\ list.archetype_kind # archetype_kind,
              building |-> list_try_get(list, tile.handle.index)]

is_near_building(w, start_cells, kind, radius_in_cells, dbg) ==
    LET cells == range_iter(calc_search_range(start_cells, radius_in_cells))
    IN  [panic |-> search_range_panics(start_cells, radius_in_cells, dbg),
         found |-> first_match(w.tile_map, cells, kind) # 0,
         building |-> NoBuilding]

find_nearest_building(w, start_cells, kind, radius_in_cells, dbg) ==
    LET cells == range_iter(calc_search_range(start_cells, radius_in_cells))
        at == first_match(w.tile_map, cells, kind)
        r == find_building_for_tile(
                 w, find_tile(w.tile_map, tile_index(cells[at]), "Building"), dbg)
    IN  IF search_range_panics(start_cells, radius_in_cells, dbg)
        THEN [panic |-> TRUE, found |-> FALSE, building |-> NoBuilding]
        ELSE IF at = 0 THEN [panic |-> FALSE, found |-> FALSE, building |-> NoBuilding]
        ELSE [panic |-> r.panic, found |-> r.building # NoBuilding, building |-> r.building]

\* The ranges a caller passes: one cell of the map, or two cells side by side.
StartRanges ==
    {CellRange(cell_of(i), cell_of(i)) : i \in GridCells}
        \cup {CellRange(cell_of(i), cell_of(i + 1)) :
                 i \in {j \in GridCells : j + 1 \in GridCells /\ cell_of(j).y = cell_of(j + 1).y}}

QueryKinds == {"WellSmall", "Market"}

QueryTileDefs == {"well_small", "market"}

QueryCall(op, start_cells, kind, radius_in_cells) ==
    [op |-> op, start_cells |-> start_cells, kind |-> kind, radius |-> radius_in_cells]

QueryStep(c, r) ==
    /\ Idle
    /\ call' = c
    /\ ret' = [found |-> r.found, building |-> r.building]
    /\ panicked' = r.panic
    /\ before' = TheWorld
    /\ UNCHANGED <<slots, slot_capacity, debug_build, hist, config, sim_vars, world_vars>>

IsNearBuilding(start_cells, kind, radius_in_cells) ==
    QueryStep(QueryCall("is_near_building", start_cells, kind, radius_in_cells),
              is_near_building(TheWorld, start_cells, kind, radius_in_cells, debug_build))

FindNearestBuilding(start_cells, kind, radius_in_cells) ==
    QueryStep(QueryCall("find_nearest_building", start_cells, kind, radius_in_cells),
              find_nearest_building(TheWorld, start_cells, kind, radius_in_cells, debug_build))

\* The tiles on the map.
PlacedTiles == {i \in DOMAIN tile_map : tile_map[i] # EmptyTile}

InitQuery ==
    /\ building_lists = world_new_lists
    /\ unit_spawn_pool = pool_new(0)
    /\ tile_map = [i \in GridCells |-> EmptyTile]
    /\ config = StorageConfig(ResourcesAccepted, NumSlots, SlotCapacity)
    /\ slots = new_slots(ResourcesAccepted, NumSlots)
    /\ slot_capacity = SlotCapacity
    /\ debug_build \in BOOLEAN
    /\ before = TheWorld
    /\ call = NoCall
    /\ ret = NoRet
    /\ panicked = FALSE
    /\ hist = <<>>
    /\ NoSim

NextQuery ==
    \/ \E target_cell \in GridCells, tile_def \in QueryTileDefs :
          /\ Cardinality(PlacedTiles) < MaxBuildings
          /\ TrySpawnBuildingWithTileDef(target_cell, tile_def)
    \/ \E tile_base_cell \in PlacedTiles : DespawnBuildingAtCell(tile_base_cell)
    \/ Reset
    \/ \E start_cells \in StartRanges, kind \in QueryKinds, radius_in_cells \in 0..MaxRadius :
          IsNearBuilding(start_cells, kind, radius_in_cells)
    \/ \E start_cells \in StartRanges, kind \in QueryKinds, radius_in_cells \in 0..MaxRadius :
          FindNearestBuilding(start_cells, kind, radius_in_cells)
    \/ WorldReturn

SpecQuery == InitQuery /\ [][NextQuery]_vars

\* The cells of the window of the query made that hold a Building tile with a
\* valid handle of the kind asked for.
WindowMatches ==
    {cell \in {Cell(x, y) : x \in (call.start_cells.start.x - call.radius)..(call.start_cells.end.x + call.radius),
                            y \in (call.start_cells.start.y - call.radius)..(call.start_cells.end.y + call.radius)} :
        /\ tile_index(cell) \in DOMAIN tile_map
        /\ tile_map[tile_index(cell)].kind = "Building"
        /\ handle_is_valid(tile_map[tile_index(cell)].handle)
        /\ kind_bits(call.kind) = tile_map[tile_index(cell)].handle.kind}

\* The first of them in row-major order.
FirstInRowMajor ==
    CHOOSE cell \in WindowMatches :
        \A other \in WindowMatches :
            cell.y < other.y \/ (cell.y = other.y /\ cell.x <= other.x)

\* C30: find_nearest_building returns the building of the first cell of the
\* window, in row-major order, that holds a Building tile with a valid handle
\* of the kind asked for, and None when the window has no such cell;
\* is_near_building is true exactly when the window has such a cell.
C30_FirstMatchInWindow ==
    /\ (Called("find_nearest_building") /\ ~panicked) =>
          IF WindowMatches = {} THEN ret.building = NoBuilding
          ELSE /\ ret.building # NoBuilding
               /\ ret.building.base_cell = tile_index(FirstInRowMajor)
               /\ ret.building.kind = call.kind
    /\ (Called("is_near_building") /\ ~panicked) => (ret.found <=> WindowMatches # {})

----------------------------------------------------------------------------
(* Lookup by tile and by cell (game/src/game/sim/world.rs): the world under *)
(* spawns and despawns, with the lookups a caller makes.                    *)

\* World::find_unit_for_tile(_mut); NoUnit stands for None.
find_unit_for_tile(w, tile, dbg) ==
    IF ~handle_is_valid(tile.handle) THEN [panic |-> FALSE, unit |-> NoUnit]
    ELSE IF dbg /\ tile.handle.kind # UNIT_GAME_STATE_KIND THEN [panic |-> TRUE, unit |-> NoUnit]
    ELSE pool_try_get(w.unit_spawn_pool, tile.handle.index, dbg)

find_building_for_cell(w, cell, dbg) ==
    LET tile == find_tile(w.tile_map, cell, "Building")
    IN  IF tile = EmptyTile THEN [panic |-> FALSE, building |-> NoBuilding]
        ELSE find_building_for_tile(w, tile, dbg)

find_unit_for_cell(w, cell, dbg) ==
    LET tile == find_tile(w.tile_map, cell, "Unit")
    IN  IF tile = EmptyTile THEN [panic |-> FALSE, unit |-> NoUnit]
        ELSE find_unit_for_tile(w, tile, dbg)

LookupStep(c, panic, building, unit) ==
    /\ Idle
    /\ call' = c
    /\ ret' = [building |-> building, unit |-> unit]
    /\ panicked' = panic
    /\ before' = TheWorld
    /\ UNCHANGED <<slots, slot_capacity, debug_build, hist, config, sim_vars, world_vars>>

FindBuildingForCell(cell) ==
    LET r == find_building_for_cell(TheWorld, cell, debug_build)
    IN  LookupStep(WorldCall("find_building_for_cell", cell, None, NoSlot, NoSlot),
                   r.panic, r.building, NoUnit)

FindUnitForCell(cell) ==
    LET r == find_unit_for_cell(TheWorld, cell, debug_build)
    IN  LookupStep(WorldCall("find_unit_for_cell", cell, None, NoSlot, NoSlot),
                   r.panic, NoBuilding, r.unit)

NextLookup ==
    \/ \E target_cell \in Cells, tile_def \in EntityTileDefs :
          TrySpawnBuildingWithTileDef(target_cell, tile_def)
    \/ \E at \in DOMAIN building_lists :
          \E index \in DOMAIN building_lists[at].buildings.entries : DespawnBuilding(at, index)
    \/ \E tile_base_cell \in Cells : DespawnBuildingAtCell(tile_base_cell)
    \/ \E target_cell \in Cells, tile_def \in UnitTileDefs :
          TrySpawnUnitWithTileDef(target_cell, tile_def)
    \/ \E unit_ref \in DOMAIN unit_spawn_pool.pool : DespawnUnit(unit_ref)
    \/ \E tile_base_cell \in Cells : DespawnUnitAtCell(tile_base_cell)
    \/ \E cell \in Cells : FindBuildingForCell(cell)
    \/ \E cell \in Cells : FindUnitForCell(cell)
    \/ WorldReturn

SpecLookup == InitEntities /\ [][NextLookup]_vars

\* What the tile at cell of the world w resolves to.
Resolved(w, cell) ==
    [building |-> find_building_for_cell(w, cell, FALSE).building,
     unit     |-> find_unit_for_cell(w, cell, FALSE).unit]

\* The entity the spawn call that placed the tile made: the building of the
\* tile's name on the tile's cell, or the unit on that cell at the index the
\* spawn published.
PlacedWith(tile) ==
    [building |-> IF tile.kind = "Building" /\ handle_is_valid(tile.handle)
                  THEN instantiate(tile) ELSE NoBuilding,
     unit     |-> IF tile.kind = "Unit" /\ handle_is_valid(tile.handle)
                  THEN unit_new(tile.cell, tile.handle.index) ELSE NoUnit]

\* C31: under spawns and despawns of buildings and units, slots being reused,
\* every tile resolves through find_building_for_tile / find_unit_for_tile to
\* the entity made by the spawn that placed it, a tile without a valid handle
\* resolves to None, a lookup returns that entity without panicking, and a
\* despawn leaves what every other tile resolves to as it was.
C31_TilesResolve ==
    /\ \A cell \in Cells : Resolved(TheWorld, cell) = PlacedWith(tile_map[cell])
    /\ \A cell \in Cells :
          /\ ~find_building_for_cell(TheWorld, cell, debug_build).panic
          /\ ~find_unit_for_cell(TheWorld, cell, debug_build).panic
    /\ Called("find_building_for_cell") =>
          ~panicked /\ ret.building = PlacedWith(tile_map[call.cell]).building
    /\ Called("find_unit_for_cell") =>
          ~panicked /\ ret.unit = PlacedWith(tile_map[call.cell]).unit
    /\ (IsDespawn /\ ~panicked) =>
          \A cell \in Cells \ {DespawnCell} : Resolved(TheWorld, cell) = Resolved(before, cell)

\* A lookup has returned the building at index 1 of its list while another
\* tile carries index 0 of the same list.
C31_Witness ==
    /\ Called("find_building_for_cell")
    /\ ret.building # NoBuilding
    /\ tile_map[call.cell].handle.index = 1
    /\ \E cell \in Cells \ {call.cell} :
          /\ tile_map[cell].kind = "Building"
          /\ tile_map[cell].handle.index = 0
          /\ tile_map[cell].handle.kind = tile_map[call.cell].handle.kind

----------------------------------------------------------------------------
(* A unit that keeps visiting one storage building: it arrives with its     *)
(* cargo, is passed to visited_by tick after tick while nothing else        *)
(* touches the storage, and leaves once the context was asked to despawn    *)
(* it.  hist holds the cargo the unit arrived with.                         *)

\* The cargo a unit arrives with: an amount of one kind.
Cargo(kind, count) == [kind |-> kind, count |-> count]

Arrive(kind, count) ==
    /\ Idle
    /\ visitor = NoVisitor
    /\ count # U32(0)
    /\ visitor' = Unit(kind, count)
    /\ hist' = <<Cargo(kind, count)>>
    /\ UNCHANGED <<slots, slot_capacity, debug_build, call, ret, before, panicked, config,
                   update_timer, world_vars>>

\* The next tick's visit of the unit that is still there.
Revisit ==
    LET r == visited_by(slots, slot_capacity, visitor, debug_build)
    IN  /\ Idle
        /\ visitor # NoVisitor
        /\ ~visitor.despawn_requested
        /\ call' = [NoCall EXCEPT !.op = "visited_by", !.kind = visitor.kind,
                                  !.amount = visitor.count]
        /\ slots' = r.slots
        /\ visitor' = r.unit
        /\ ret' = [NoRet EXCEPT !.count = r.count]
        /\ panicked' = r.panic
        /\ before' = slots
        /\ UNCHANGED <<slot_capacity, debug_build, hist, config, update_timer, world_vars>>

\* The context despawns the unit it was asked to despawn.
Depart ==
    /\ Idle
    /\ visitor.despawn_requested
    /\ visitor' = NoVisitor
    /\ hist' = <<>>
    /\ UNCHANGED <<slots, slot_capacity, debug_build, call, ret, before, panicked, config,
                   update_timer, world_vars>>

NextRetry ==
    \/ \E kind \in Kinds, count \in Amounts(slot_capacity) :
          visitor = NoVisitor /\ ReceiveResources(kind, count) /\ UNCHANGED hist
    \/ \E slot_index \in SlotIndices(slots), kind \in Kinds, sub_amount \in Amounts(slot_capacity) :
          /\ visitor = NoVisitor
          /\ DecrementSlotResourceCount(slot_index, kind, sub_amount) /\ UNCHANGED hist
    \/ \E kind \in Kinds, count \in Amounts(slot_capacity) : Arrive(kind, count)
    \/ Revisit
    \/ Depart
    \/ Return /\ UNCHANGED hist

\* ENABLED <<Revisit>>_vars: a visit changes call whenever it can be made.
RevisitEnabled == Idle /\ visitor # NoVisitor /\ ~visitor.despawn_requested

\* The unit is visited again on a later tick as long as it is there, which is
\* WF_vars(Revisit) written out, and a call that was made returns.
SpecRetry ==
    /\ Init /\ [][NextRetry]_vars
    /\ ([]<>(~RevisitEnabled) \/ []<><<Revisit>>_vars)
    /\ WF_vars(Return /\ UNCHANGED hist)

\* The unit carries n > 0 of a kind and the storage can fit that many.
CargoFits ==
    /\ visitor.count # U32(0)
    /\ ~visitor.despawn_requested
    /\ ~U32Less(U32(how_many_can_fit(slots, slot_capacity, visitor.kind)), visitor.count)

Unloaded == is_inventory_empty(visitor) /\ visitor.despawn_requested

\* C32 as stated, for a unit carrying any kind: a unit carrying n > 0 of a
\* kind K, at a storage with how_many_can_fit(K) >= n, that is visited again
\* and again with nothing else touching the storage, eventually has an empty
\* inventory and its despawn requested.
C32_AnyKindUnloads == CargoFits ~> Unloaded

\* C32, for the kinds the storage accepts: a unit carrying n > 0 of an
\* accepted kind K, at a storage with how_many_can_fit(K) >= n, that is
\* visited again and again with nothing else touching the storage, eventually
\* has an empty inventory and its despawn requested.
C32_RetryUnloads ==
    (CargoFits /\ stock_find(with_accepted_list(config.resources_accepted), visitor.kind) # 0)
        ~> Unloaded

\* The unit arrived with more than one slot takes and has given the rest on a
\* later visit.
C32_Witness ==
    /\ Called("visited_by")
    /\ Unloaded
    /\ hist[1].count = U32(SlotCapacity + 1)
    /\ call.amount = U32(1)

----------------------------------------------------------------------------
(* Orphaned units: the world's unit operations, with the owner of the tile  *)
(* map clearing a tile on its own (TileMap::try_clear_tile_from_layer       *)
(* called outside World).                                                   *)

ClearTile(cell) ==
    LET cleared == try_clear_tile_from_layer(tile_map, cell)
    IN  WorldStep(WorldCall("try_clear_tile_from_layer", cell, None, NoSlot, NoSlot),
                  WorldResult(FALSE, cleared.ok, [TheWorld EXCEPT !.tile_map = cleared.tiles],
                              NoSlot))

NextOrphan ==
    \/ \E target_cell \in Cells, tile_def \in UnitTileDefs :
          TrySpawnUnitWithTileDef(target_cell, tile_def)
    \/ \E tile_base_cell \in Cells : DespawnUnitAtCell(tile_base_cell)
    \/ \E cell \in Cells : ClearTile(cell)
    \/ WorldReturn

\* A call that was made returns.
SpecOrphan == InitEntities /\ [][NextOrphan]_vars /\ WF_vars(WorldReturn)

\* The unit at index of the pool is live and no tile carries its handle.
Orphaned(index) ==
    /\ index \in DOMAIN unit_spawn_pool.is_spawned_flags
    /\ unit_spawn_pool.is_spawned_flags[index]
    /\ \A cell \in Cells :
          ~(tile_map[cell].kind = "Unit" /\ tile_map[cell].handle.index = index)

\* A spawn request has just succeeded.
UnitSpawned == Called("try_spawn_unit_with_tile_def") /\ ~panicked /\ ret.ok

\* C33: an orphaned unit ages out: while spawn requests keep being served,
\* its pool slot is eventually reclaimed.
C33_OrphansAgeOut ==
    \A index \in 0..(MaxPoolLen - 1) :
        ([]<>UnitSpawned) => (Orphaned(index) ~> ~Orphaned(index))

----------------------------------------------------------------------------
(* World::update with callbacks that despawn: the update of a unit may      *)
(* reach, through the Query's back-reference to the world, a despawn of a   *)
(* live unit (its own, as StorageBuilding::visited_by does, or another).    *)

\* BuildingContext::despawn_unit: World::despawn_unit on the unit at target,
\* NoSlot when the callback despawns nothing.  A callback holds references to
\* live units only.
context_despawn_unit(w, target, dbg) ==
    IF target \notin DOMAIN w.unit_spawn_pool.is_spawned_flags
    THEN WorldResult(FALSE, TRUE, w, NoSlot)
    ELSE IF ~w.unit_spawn_pool.is_spawned_flags[target]
    THEN WorldResult(FALSE, TRUE, w, NoSlot)
    ELSE despawn_unit(w, target, dbg)

\* Mutant: the iterator yields every entry of the pool, spawned or not.
RECURSIVE units_updated_every_entry(_, _, _, _)
units_updated_every_entry(w, pos, callbacks, dbg) ==
    IF pos \notin DOMAIN w.unit_spawn_pool.is_spawned_flags
    THEN [panic |-> FALSE, world |-> w, visits |-> <<>>]
    ELSE LET r == context_despawn_unit(w, callbacks[pos], dbg)
             rest == units_updated_every_entry(r.world, pos + 1, callbacks, dbg)
             visit == <<UnitVisit([index |-> pos])>>
         IN  IF r.panic THEN [panic |-> TRUE, world |-> w, visits |-> visit]
             ELSE [rest EXCEPT !.visits = visit \o rest.visits]

\* The first loop of World::update from the entry at pos on:
\* UnitSpawnPoolIterMut::next reads the entry's bit of is_spawned_flags when
\* it gets to the entry, after the updates of the entries before it.  The
\* update of the unit at index i despawns the unit callbacks[i].
RECURSIVE units_updated_from(_, _, _, _)
units_updated_from(w, pos, callbacks, dbg) ==
    IF pos \notin DOMAIN w.unit_spawn_pool.is_spawned_flags
    THEN [panic |-> FALSE, world |-> w, visits |-> <<>>]
    ELSE IF ~w.unit_spawn_pool.is_spawned_flags[pos]
    THEN units_updated_from(w, pos + 1, callbacks, dbg)
    ELSE LET r == context_despawn_unit(w, callbacks[pos], dbg)
             rest == units_updated_from(r.world, pos + 1, callbacks, dbg)
             visit == <<UnitVisit([index |-> pos])>>
         IN  IF r.panic THEN [panic |-> TRUE, world |-> w, visits |-> visit]
             ELSE [rest EXCEPT !.visits = visit \o rest.visits]

\* World::update, the updates of its units despawning the units of callbacks.
UpdateDespawning(callbacks) ==
    LET r == units_updated_from(TheWorld, 0, callbacks, debug_build)
    IN  /\ Idle
        /\ call' = [op |-> "update", callbacks |-> callbacks]
        /\ ret' = [ok |-> TRUE, index |-> NoSlot,
                   visits |-> r.visits \o buildings_updated_from(r.world.building_lists, 0)]
        /\ building_lists' = r.world.building_lists
        /\ unit_spawn_pool' = r.world.unit_spawn_pool
        /\ tile_map' = r.world.tile_map
        /\ panicked' = r.panic
        /\ before' = TheWorld
        /\ UNCHANGED <<slots, slot_capacity, debug_build, hist, config, sim_vars>>

NextCallback ==
    \/ \E target_cell \in Cells, tile_def \in UnitTileDefs :
          TrySpawnUnitWithTileDef(target_cell, tile_def)
    \/ \E tile_base_cell \in Cells : DespawnUnitAtCell(tile_base_cell)
    \/ \E callbacks \in [DOMAIN unit_spawn_pool.is_spawned_flags ->
                             DOMAIN unit_spawn_pool.is_spawned_flags \cup {NoSlot}] :
          UpdateDespawning(callbacks)
    \/ WorldReturn

SpecCallback == InitEntities /\ [][NextCallback]_vars

\* The update that has just returned updated the unit at index.
UnitUpdated(index) ==
    \E i \in DOMAIN ret.visits :
        ret.visits[i].entity = "Unit" /\ ret.visits[i].index = index

\* The unit at index was spawned before the update and no unit updated
\* before it despawned it.
LiveWhenReached(index) ==
    /\ before.unit_spawn_pool.is_spawned_flags[index]
    /\ \A i \in 0..(index - 1) : ~(UnitUpdated(i) /\ call.callbacks[i] = index)

\* C34: an update whose callbacks despawn units updates exactly the units
\* whose live bit is set when the iteration reaches them, each once.
C34_DespawnDuringUpdate ==
    (Called("update") /\ ~panicked) =>
        /\ \A index \in DOMAIN before.unit_spawn_pool.is_spawned_flags :
              UnitUpdated(index) <=> LiveWhenReached(index)
        /\ \A i, j \in DOMAIN ret.visits :
              (i # j /\ ret.visits[i].entity = "Unit" /\ ret.visits[j].entity = "Unit")
                  => ret.visits[i].index # ret.visits[j].index

\* An update whose first unit despawned the second, which was not updated.
C34_Witness ==
    /\ Called("update") /\ ~panicked
    /\ \E i, j \in DOMAIN before.unit_spawn_pool.is_spawned_flags :
          /\ i < j /\ UnitUpdated(i) /\ call.callbacks[i] = j
          /\ before.unit_spawn_pool.is_spawned_flags[j]
          /\ ~unit_spawn_pool.is_spawned_flags[j]
          /\ ~UnitUpdated(j)

----------------------------------------------------------------------------
(* The scheduler under frames that keep coming, each with a positive delta: *)
(* the game loop calls Simulation::update once a frame, and every call      *)
(* returns.  The timer is one of UpdateTimer::new, of any frequency up to   *)
(* the default.                                                             *)

Frame(delta_time) ==
    LET r == simulation_update(update_timer, delta_time)
    IN  /\ Idle
        /\ call' = SimCall(delta_time)
        /\ ret' = SimRet(r.updates, r.world_delta)
        /\ update_timer' = r.timer
        /\ before' = update_timer
        /\ UNCHANGED <<slots, slot_capacity, debug_build, panicked, hist, config, world_vars,
                       visitor>>

Frames == \E delta_time \in 1..MaxDelta : Frame(delta_time)

InitFrames ==
    /\ update_timer \in {timer_new(update_frequency_secs) :
                             update_frequency_secs \in 1..DEFAULT_SIM_UPDATE_FREQUENCY_SECS}
    /\ visitor = NoVisitor
    /\ building_lists = world_new_lists
    /\ unit_spawn_pool = pool_new(PoolCapacity)
    /\ tile_map = [cell \in Cells |-> EmptyTile]
    /\ config = StorageConfig(ResourcesAccepted, NumSlots, SlotCapacity)
    /\ slots = new_slots(ResourcesAccepted, NumSlots)
    /\ slot_capacity = SlotCapacity
    /\ debug_build \in BOOLEAN
    /\ before = update_timer
    /\ call = NoCall
    /\ ret = NoRet
    /\ panicked = FALSE
    /\ hist = <<>>

NextFrames == Frames \/ SimReturn

SpecFrames ==
    /\ InitFrames /\ [][NextFrames]_vars
    /\ WF_vars(Frames) /\ WF_vars(SimReturn)

\* The Simulation::update call that has just been made called World::update.
WorldUpdated == Called("update") /\ ret.updates = 1

\* C35: under frames of positive delta World::update is called again and
\* again, and a Simulation::update whose timer says ShouldUpdate calls it.
C35_UpdatesRecur ==
    /\ []<>WorldUpdated
    /\ []((Called("update")
            /\ before.time_since_last_update_secs >= before.update_frequency_secs)
           => ret.updates = 1)

\* A world update made after the accumulator was built up over frames.
C35_Witness ==
    /\ WorldUpdated
    /\ update_timer.update_frequency_secs = DEFAULT_SIM_UPDATE_FREQUENCY_SECS
    /\ ret.world_delta > MaxDelta

----------------------------------------------------------------------------
(* The time the scheduler was given and the time it passed on.              *)

\* The frame deltas of the Simulation::update calls i..Len(h) of h.
RECURSIVE FrameTimeFrom(_, _)
FrameTimeFrom(h, i) == IF i > Len(h) THEN 0 ELSE h[i].delta_time + FrameTimeFrom(h, i + 1)

\* The deltas given to World::update by the calls i..Len(h) of h.
RECURSIVE WorldTimeFrom(_, _)
WorldTimeFrom(h, i) == IF i > Len(h) THEN 0 ELSE h[i].world_delta + WorldTimeFrom(h, i + 1)

\* C36: the deltas passed to World::update and the accumulator add up to the
\* frame deltas fed to Simulation::update so far.
C36_NoTimeDiscarded ==
    WorldTimeFrom(hist, 1) + update_timer.time_since_last_update_secs = FrameTimeFrom(hist, 1)

----------------------------------------------------------------------------
(* Handles that outlive their entities: the world's spawns, despawns and    *)
(* lookups with World::reset, which leaves the tiles and their handles in   *)
(* the tile map.                                                            *)

NextStale == NextLookup \/ Reset

SpecStale == InitEntities /\ [][NextStale]_vars

\* pool.len().
PoolLen == VecLen(unit_spawn_pool.pool)

\* The handles of the unit tiles of the map.
UnitHandles ==
    {tile_map[cell].handle : cell \in {c \in Cells : /\ tile_map[c].kind = "Unit"
                                                      /\ handle_is_valid(tile_map[c].handle)}}

\* C37: no step shortens the unit pool, every unit handle on a tile is an
\* index of the pool, and no lookup of a unit indexes out of bounds.
C37_PoolNeverShrinks ==
    /\ [][VecLen(unit_spawn_pool'.pool) >= PoolLen]_vars
    /\ [](\A handle \in UnitHandles :
            /\ handle.index \in 0..(PoolLen - 1)
            /\ handle.index \in DOMAIN unit_spawn_pool.is_spawned_flags)
    /\ [](\A cell \in Cells : ~find_unit_for_cell(TheWorld, cell, debug_build).panic)
    /\ [](Called("find_unit_for_cell") => ~panicked)

\* A lookup through a handle whose unit a reset took away.
C37_Witness ==
    /\ Called("find_unit_for_cell") /\ ~panicked
    /\ tile_map[call.cell].kind = "Unit"
    /\ handle_is_valid(tile_map[call.cell].handle)
    /\ ~unit_spawn_pool.is_spawned_flags[tile_map[call.cell].handle.index]
    /\ ret.unit = NoUnit

\* C38: after World::reset every building list is empty and no unit is
\* live, and a tile resolves to the entity that was placed with it or to
\* none, never to another entity that took the index of its handle.
C38_StaleHandlesResolveToNone ==
    /\ (Called("reset") /\ ~panicked) =>
          /\ \A at \in DOMAIN building_lists : list_iter_mut(building_lists[at]) = <<>>
          /\ pool_iter_mut(unit_spawn_pool) = <<>>
    /\ \A cell \in Cells :
          LET resolved == Resolved(TheWorld, cell)
              placed == PlacedWith(tile_map[cell])
          IN  /\ resolved.building \in {NoBuilding, placed.building}
              /\ resolved.unit \in {NoUnit, placed.unit}

----------------------------------------------------------------------------
(* The world under its spawn and despawn operations alone.                  *)

NextHandles ==
    \/ \E target_cell \in Cells, tile_def \in EntityTileDefs :
          TrySpawnBuildingWithTileDef(target_cell, tile_def)
    \/ \E at \in DOMAIN building_lists :
          \E index \in DOMAIN building_lists[at].buildings.entries : DespawnBuilding(at, index)
    \/ \E tile_base_cell \in Cells : DespawnBuildingAtCell(tile_base_cell)
    \/ \E target_cell \in Cells, tile_def \in UnitTileDefs :
          TrySpawnUnitWithTileDef(target_cell, tile_def)
    \/ \E target_cell \in Cells, unit_config_key \in UnitConfigKeys :
          TrySpawnUnitWithConfig(target_cell, unit_config_key)
    \/ \E unit_ref \in DOMAIN unit_spawn_pool.pool : DespawnUnit(unit_ref)
    \/ \E tile_base_cell \in Cells : DespawnUnitAtCell(tile_base_cell)
    \/ WorldReturn

SpecHandles == InitEntities /\ [][NextHandles]_vars

\* The entity the handle of the tile of cell denotes: the unit pool or a
\* building list, and the index in it.
Denoted(cell) ==
    LET tile == tile_map[cell]
    IN  IF tile.kind = "Unit" THEN [list |-> NoSlot, index |-> tile.handle.index]
        ELSE [list |-> buildings_list(kind_archetype_kind(from_game_state_handle(tile.handle))),
              index |-> tile.handle.index]

\* The occupied cells whose tile carries a valid handle.
HandleCells == {cell \in Cells : tile_map[cell].kind # "None" /\ handle_is_valid(tile_map[cell].handle)}

\* The cells whose handle denotes the entity at index of list.
Referring(list, index) ==
    {cell \in HandleCells : Denoted(cell) = [list |-> list, index |-> index]}

\* C39: no two tiles carry handles of one entity, and every live building
\* and every live unit is denoted by the handle of exactly one tile.
C39_HandlesUnique ==
    /\ \A c1, c2 \in HandleCells : Denoted(c1) = Denoted(c2) => c1 = c2
    /\ \A at \in DOMAIN building_lists :
          \A index \in DOMAIN building_lists[at].buildings.entries :
              slab_contains(building_lists[at].buildings, index)
                  => Cardinality(Referring(at, index)) = 1
    /\ \A index \in DOMAIN unit_spawn_pool.is_spawned_flags :
          unit_spawn_pool.is_spawned_flags[index]
              => Cardinality(Referring(NoSlot, index)) = 1

\* A spawn that reused an entry of the pool next to a building that
\* has its tile.
C39_Witness ==
    /\ Called("try_spawn_unit_with_tile_def") /\ ~panicked /\ ret.ok
    /\ ret.index \in DOMAIN before.unit_spawn_pool.is_spawned_flags
    /\ ~before.unit_spawn_pool.is_spawned_flags[ret.index]
    /\ \E cell \in HandleCells : tile_map[cell].kind = "Building"

----------------------------------------------------------------------------
(* Room and fullness of the storage.                                        *)

\* C40: receive_resources of an accepted kind and a count of at least 1
\* returns 0 exactly when how_many_can_fit of the kind is 0, and the storage
\* is full exactly when how_many_can_fit is 0 for every accepted kind.
C40_ZeroIffNoRoom ==
    /\ ( /\ Called("receive_resources")
         /\ call.kind \in Accepted
         /\ U32Less(U32(0), call.amount) )
       => ( (~panicked /\ ret.count = U32(0))
               <=> how_many_can_fit(before, slot_capacity, call.kind) = 0 )
    /\ are_all_slots_full(slots, slot_capacity)
          <=> \A kind \in Accepted : how_many_can_fit(slots, slot_capacity, kind) = 0

\* The call that filled the last room of the storage.
C40_Witness ==
    /\ Called("receive_resources") /\ ~panicked
    /\ call.kind \in Accepted
    /\ ret.count = U32(1)
    /\ ~are_all_slots_full(before, slot_capacity)
    /\ are_all_slots_full(slots, slot_capacity)

====
